---- MODULE Spec2Model ----
(***************************************************************************)
(* Model of golem-cli's component command handler                          *)
(* (src/golem-cli/src/command_handler/component/mod.rs): component lookup, *)
(* deploy (create-or-update) and the post-deploy worker lifecycle batch,   *)
(* the selection of components by name, cmd_get and the dynamic linking    *)
(* of a component.                                                         *)
(* The remote component store and the worker handler are collaborators     *)
(* whose code is not part of the handler; they are modelled by their call  *)
(* contracts.                                                              *)
(***************************************************************************)
EXTENDS Integers, Sequences, FiniteSets, TLC

VARIABLES
    store,      \* remote ComponentStore: set of component records, one per (id, version)
    next_id,    \* remote ComponentStore: next component id to allocate
    calls,      \* remote calls issued by the running command, in order
    cmd,        \* the running command and its inputs ([op |-> "idle"] between commands)
    frame,      \* position (pc) and local variables of the running handler
    ret         \* return value of the command (NoRet while there is none)

vars == <<store, next_id, calls, cmd, frame, ret>>

----------------------------------------------------------------------------
\* Bounds of the model

\* Highest component version the store is driven to.
MaxVersion == 2

ComponentNames == {"a", "b"}
WorkerNames == {"w1"}
Projects == {"p1"}
Backends == {"Oss", "Cloud"}

\* One id more than can ever be allocated, so that a by-id lookup can miss.
ComponentIds == 1..(Cardinality(ComponentNames) + 1)
Versions == 0..(MaxVersion + 1)

----------------------------------------------------------------------------
\* Rust values: Result, Option

Ok(v) == [ok |-> TRUE, val |-> v]
Err(e) == [ok |-> FALSE, err |-> e]
None == [some |-> FALSE]
Some(v) == [some |-> TRUE, val |-> v]

NoRet == [pending |-> TRUE]
NotCalled == [called |-> FALSE]
Idle == [op |-> "idle"]
NoFrame == [pc |-> "none"]

\* An entry of the call log: the call and the response it got.
Called(call, resp) == [call |-> call, resp |-> resp]

\* Error codes of a remote response; anyhow errors are <<origin, detail>>.
RemoteErrors == {"not_found", "other"}

Last(s) == s[Len(s)]

\* All orders in which the elements of the finite set S can be listed.
RECURSIVE Perms(_)
Perms(S) ==
    IF S = {} THEN {<<>>}
    ELSE UNION {{<<x>> \o p : p \in Perms(S \ {x})} : x \in S}

MaxOf(S) == CHOOSE x \in S : \A y \in S : y <= x

----------------------------------------------------------------------------
\* The remote store's contract (spec section 6)

Component(id, name, version) ==
    [component_id |-> id, component_name |-> name, version |-> version]

RecordsByName(name) == {c \in store : c.component_name = name}
RecordsById(id) == {c \in store : c.component_id = id}

\* list-by-name: every version of the name, in an order the store defines.
get_components_responses(name) ==
    {Ok(p) : p \in Perms(RecordsByName(name))} \cup {Err(e) : e \in RemoteErrors}

\* The responses of a store that keeps to the listing order its contract
\* assumes: ascending versions.
listed_in_version_order(responses) ==
    {r \in responses :
        r.ok => \A i \in 1..(Len(r.val) - 1) : r.val[i].version < r.val[i + 1].version}

\* get-latest(id): the highest version of the id, or not-found.
get_latest_component_metadata_responses(id) ==
    (IF RecordsById(id) = {}
     THEN {Err("not_found")}
     ELSE {Ok(CHOOSE c \in RecordsById(id) :
                 \A d \in RecordsById(id) : d.version <= c.version)})
    \cup {Err("other")}

\* get-by-id-version(id, version): that record, or not-found.
get_component_metadata_responses(id, version) ==
    (IF \E c \in RecordsById(id) : c.version = version
     THEN {Ok(CHOOSE c \in RecordsById(id) : c.version = version)}
     ELSE {Err("not_found")})
    \cup {Err("other")}

\* worker_metadata(component_id, component_name, worker_name): the version the
\* worker was instantiated at (a version of that component), or a failure.
worker_metadata_responses(id) ==
    {Ok([component_version |-> c.version]) : c \in RecordsById(id)}
    \cup {Err(<<"worker", e>>) : e \in RemoteErrors}

----------------------------------------------------------------------------
\* crate::error::service (AnyhowMapServiceError)

\* map_service_error: a remote error becomes an anyhow service error.
map_service_error(r) ==
    IF r.ok THEN Ok(r.val) ELSE Err(<<"service", r.err>>)

\* map_service_error_not_found_as_opt: not-found becomes Ok(None).
map_service_error_not_found_as_opt(r) ==
    IF r.ok THEN Ok(Some(r.val))
    ELSE IF r.err = "not_found" THEN Ok(None)
    ELSE Err(<<"service", r.err>>)

----------------------------------------------------------------------------
\* ComponentCommandHandler::component

ByName(name) == [kind |-> "Name", name |-> name]
ById(id) == [kind |-> "Id", id |-> id]
ByWorkerName(w) == [kind |-> "ByWorkerName", worker_name |-> w]
ByExplicitVersion(v) == [kind |-> "ByExplicitVersion", version |-> v]

ComponentSelections ==
    {ByName(n) : n \in ComponentNames} \cup {ById(i) : i \in ComponentIds}
ComponentVersionSelections ==
    {None} \cup {Some(ByWorkerName(w)) : w \in WorkerNames}
           \cup {Some(ByExplicitVersion(v)) : v \in Versions}
OptProjects == {None} \cup {Some(p) : p \in Projects}

\* The first remote call of component(): list-by-name or get-latest.
initial_call(backend, project, sel) ==
    IF sel.kind = "Name"
    THEN IF backend = "Oss"
         THEN [op |-> "get_components", backend |-> backend,
               project |-> None, name |-> sel.name]
         ELSE [op |-> "get_components", backend |-> backend,
               project |-> project, name |-> sel.name]
    ELSE [op |-> "get_latest_component_metadata", backend |-> backend,
          id |-> sel.id]

\* Faulty variant of lookup_by_name: an empty listing is reported as an error.
lookup_by_name_empty_is_error(backend, r1) ==
    LET components == map_service_error(r1) IN
    IF ~components.ok THEN components
    ELSE IF components.val # <<>>
         THEN Ok(Some(Last(components.val)))
         ELSE Err(<<"service", "not_found">>)

\* Faulty variant of lookup_by_name: the first listed record is taken, not the last.
lookup_by_name_takes_first(backend, r1) ==
    LET components == map_service_error(r1) IN
    IF ~components.ok THEN components
    ELSE IF components.val # <<>>
         THEN Ok(Some(Head(components.val)))
         ELSE Ok(None)

\* Faulty variant of lookup_by_name: a failed listing is treated as an empty one.
lookup_by_name_swallows_errors(backend, r1) ==
    IF r1.ok /\ r1.val # <<>> THEN Ok(Some(Last(r1.val))) ELSE Ok(None)

\* Lines 1126-1154: the component found by name, given the store's response
\* r1 to get_components: the last listed record (components.pop()).
lookup_by_name(backend, r1) ==
    IF backend = "Oss"
    THEN LET components == map_service_error(r1) IN
         IF ~components.ok THEN components
         ELSE IF components.val # <<>>
              THEN Ok(Some(Last(components.val)))
              ELSE Ok(None)
    ELSE LET components == map_service_error(r1) IN
         IF ~components.ok THEN components
         ELSE IF components.val # <<>>
              THEN Ok(Some(Last(components.val)))
              ELSE Ok(None)

\* Faulty variant of lookup_by_id: every failure of get-latest is taken for absence.
lookup_by_id_any_error_is_none(backend, r1) ==
    IF r1.ok THEN Ok(Some(r1.val)) ELSE Ok(None)

\* Lines 1155-1168: the component found by id, given the store's response
\* r1 to get_latest_component_metadata.
lookup_by_id(backend, r1) ==
    IF backend = "Oss"
    THEN map_service_error_not_found_as_opt(r1)
    ELSE map_service_error_not_found_as_opt(r1)

\* Lines 1125-1169: the component found by the initial lookup.
initial_lookup(backend, sel, r1) ==
    IF sel.kind = "Name"
    THEN lookup_by_name(backend, r1)
    ELSE lookup_by_id(backend, r1)

\* Faulty variant of selected_version: a failed worker lookup pins version 0.
selected_version_default_on_failure(selection, r2) ==
    IF selection.kind = "ByWorkerName"
    THEN IF r2.ok THEN Some(r2.val.component_version) ELSE Some(0)
    ELSE Some(selection.version)

\* Lines 1173-1186: the version to pin to, given the worker handler's
\* response r2 (consulted for ByWorkerName only).
selected_version(selection, r2) ==
    IF selection.kind = "ByWorkerName"
    THEN IF r2.ok THEN Some(r2.val.component_version) ELSE None
    ELSE Some(selection.version)

\* Faulty variant of pinned_component: a missing version is taken for absence.
pinned_component_not_found_as_opt(backend, r3) ==
    map_service_error_not_found_as_opt(r3)

\* Lines 1188-1214: the pinned record, given the store's response r3 to
\* get_component_metadata(id, version).
pinned_component(backend, r3) ==
    LET component == IF backend = "Oss"
                     THEN map_service_error(r3)
                     ELSE map_service_error(r3) IN
    IF ~component.ok THEN component ELSE Ok(Some(component.val))

worker_metadata_call(component, selection) ==
    [op |-> "worker_metadata", id |-> component.component_id,
     name |-> component.component_name, worker_name |-> selection.worker_name]

\* Faulty variant of get_component_metadata_call: the version asked for is the
\* one of the component the initial lookup found.
get_component_metadata_call_of_found(backend, component, version) ==
    [op |-> "get_component_metadata", backend |-> backend,
     id |-> component.component_id, version |-> component.version]

get_component_metadata_call(backend, component, version) ==
    [op |-> "get_component_metadata", backend |-> backend,
     id |-> component.component_id, version |-> version]

\* Faulty variant of component: whether or not the initial lookup found a
\* component, worker_metadata is called for ByWorkerName and the version is
\* fetched for ByExplicitVersion.
component_pins_absent(clients_ok, backend, project, sel, vsel, r1, r2, r3) ==
    IF ~clients_ok THEN [ret |-> Err(<<"clients", "unavailable">>), calls |-> <<>>]
    ELSE
    LET c1 == <<Called(initial_call(backend, project, sel), r1)>>
        found == initial_lookup(backend, sel, r1) IN
    IF ~found.ok THEN [ret |-> found, calls |-> c1]
    ELSE IF ~vsel.some
         THEN [ret |-> IF found.val.some THEN Ok(Some(found.val.val)) ELSE Ok(None),
               calls |-> c1]
    ELSE
    LET comp == IF found.val.some THEN found.val.val
                ELSE Component(0, "", 0)
        c2 == IF vsel.val.kind = "ByWorkerName"
              THEN c1 \o <<Called(worker_metadata_call(comp, vsel.val), r2)>>
              ELSE c1
        version == IF vsel.val.kind = "ByWorkerName" THEN None
                   ELSE Some(vsel.val.version) IN
    IF ~version.some
    THEN [ret |-> IF found.val.some THEN Ok(Some(comp)) ELSE Ok(None), calls |-> c2]
    ELSE [ret |-> IF found.val.some THEN pinned_component(backend, r3)
                  ELSE Err(<<"service", "not_found">>),
          calls |-> c2 \o <<Called(get_component_metadata_call(backend, comp, version.val),
                                    r3)>>]

\* component(project, component_name_or_id, component_version_selection):
\* [ret, calls], where r1, r2, r3 are the responses to the calls it makes
\* (r2 and r3 are read only when the call is made).
component(clients_ok, backend, project, sel, vsel, r1, r2, r3) ==
    IF ~clients_ok THEN [ret |-> Err(<<"clients", "unavailable">>), calls |-> <<>>]
    ELSE
    LET c1 == <<Called(initial_call(backend, project, sel), r1)>>
        found == initial_lookup(backend, sel, r1) IN
    IF ~found.ok THEN [ret |-> found, calls |-> c1]
    ELSE IF ~found.val.some THEN [ret |-> Ok(None), calls |-> c1]
    ELSE IF ~vsel.some THEN [ret |-> Ok(Some(found.val.val)), calls |-> c1]
    ELSE
    LET comp == found.val.val
        c2 == IF vsel.val.kind = "ByWorkerName"
              THEN c1 \o <<Called(worker_metadata_call(comp, vsel.val), r2)>>
              ELSE c1
        version == selected_version(vsel.val, r2) IN
    IF ~version.some THEN [ret |-> Ok(Some(comp)), calls |-> c2]
    ELSE [ret |-> pinned_component(backend, r3),
          calls |-> c2 \o <<Called(get_component_metadata_call(backend, comp, version.val),
                                    r3)>>]

\* component_id_by_name: component(project, name, None) mapped to its id.
component_id_by_name(clients_ok, backend, project, name, r1) ==
    LET c == component(clients_ok, backend, project, ByName(name), None,
                       r1, NotCalled, NotCalled) IN
    [ret |-> IF ~c.ret.ok THEN c.ret
             ELSE IF c.ret.val.some THEN Ok(Some(c.ret.val.val.component_id))
             ELSE Ok(None),
     calls |-> c.calls]

----------------------------------------------------------------------------
\* The remote store's mutating operations (spec section 6): the response and
\* the store after it

Latest(id) ==
    CHOOSE c \in RecordsById(id) : \A d \in RecordsById(id) : d.version <= c.version

Unchanged(resp) == [resp |-> resp, store |-> store, next_id |-> next_id]

\* create(name, ...): allocates an id at version 0; a name already bound is
\* refused.
create_component_outcomes(name) ==
    (IF RecordsByName(name) = {}
     THEN {[resp |-> Ok(Component(next_id, name, 0)),
            store |-> store \cup {Component(next_id, name, 0)},
            next_id |-> next_id + 1]}
     ELSE {Unchanged(Err("conflict"))})
    \cup {Unchanged(Err("other"))}

\* update(id, ...): appends the next version of the id.
update_component_outcomes(id) ==
    (IF RecordsById(id) = {}
     THEN {Unchanged(Err("not_found"))}
     ELSE IF Latest(id).version < MaxVersion
          THEN {[resp |-> Ok(Component(id, Latest(id).component_name,
                                       Latest(id).version + 1)),
                 store |-> store \cup {Component(id, Latest(id).component_name,
                                                 Latest(id).version + 1)},
                 next_id |-> next_id]}
          ELSE {})
    \cup {Unchanged(Err("other"))}

----------------------------------------------------------------------------
\* The store as driven by its other clients, between two commands

StoreCreate(name) ==
    /\ cmd = Idle
    /\ \E o \in create_component_outcomes(name) :
       /\ o.resp.ok
       /\ store' = o.store
       /\ next_id' = o.next_id
    /\ UNCHANGED <<calls, cmd, frame, ret>>

StoreUpdate(id) ==
    /\ cmd = Idle
    /\ \E o \in update_component_outcomes(id) :
       /\ o.resp.ok
       /\ store' = o.store
       /\ next_id' = o.next_id
    /\ UNCHANGED <<calls, cmd, frame, ret>>

\* A command has returned; the next one starts from a clean slate.
Return ==
    /\ cmd # Idle
    /\ ret # NoRet
    /\ cmd' = Idle
    /\ ret' = NoRet
    /\ calls' = <<>>
    /\ frame' = NoFrame
    /\ UNCHANGED <<store, next_id>>

----------------------------------------------------------------------------
\* Specification of the lookup: component() against every store state

CmdComponent ==
    /\ cmd = Idle
    /\ \E clients_ok \in BOOLEAN, backend \in Backends, project \in OptProjects,
          sel \in ComponentSelections, vsel \in ComponentVersionSelections :
       \E r1 \in (IF sel.kind = "Name"
                  THEN get_components_responses(sel.name)
                  ELSE get_latest_component_metadata_responses(sel.id)) :
       LET found == initial_lookup(backend, sel, r1)
           hit == clients_ok /\ found.ok /\ found.val.some /\ vsel.some
           byWorker == hit /\ vsel.val.kind = "ByWorkerName" IN
       \E r2 \in (IF byWorker
                  THEN worker_metadata_responses(found.val.val.component_id)
                  ELSE {NotCalled}) :
       LET version == IF hit THEN selected_version(vsel.val, r2) ELSE None IN
       \E r3 \in (IF version.some
                  THEN get_component_metadata_responses(
                           found.val.val.component_id, version.val)
                  ELSE {NotCalled}) :
       LET out == component(clients_ok, backend, project, sel, vsel, r1, r2, r3) IN
       /\ cmd' = [op |-> "component", clients_ok |-> clients_ok,
                  backend |-> backend, project |-> project,
                  sel |-> sel, vsel |-> vsel, r1 |-> r1, r2 |-> r2, r3 |-> r3]
       /\ ret' = out.ret
       /\ calls' = out.calls
    /\ UNCHANGED <<store, next_id, frame>>

InitStore ==
    /\ store = {}
    /\ next_id = 1
    /\ calls = <<>>
    /\ cmd = Idle
    /\ frame = NoFrame
    /\ ret = NoRet

NextLookup ==
    \/ \E n \in ComponentNames : StoreCreate(n)
    \/ \E i \in ComponentIds : StoreUpdate(i)
    \/ CmdComponent
    \/ Return

SpecLookup == InitStore /\ [][NextLookup]_vars

----------------------------------------------------------------------------
\* Local variables of the stepwise handlers (deploy, deploy_component,
\* update_workers_by_components, redeploy_workers_by_components)

Unit == [unit |-> TRUE]

NewFrame ==
    [pc |-> "start",
     selected |-> <<>>,            \* deploy: selected_component_names
     component_types |-> <<>>,     \* application: declared type of each selected component
     i |-> 0,                      \* deploy: index of the component in the for loop
     app_ctx |-> FALSE,            \* deploy: a guard of app_context_lock() is alive
     dependencies |-> None,        \* application: what the component being deployed declares
     component_id |-> None,        \* deploy_component: component_id
     deploy_properties |-> None,   \* deploy_component: deploy_properties
     ifs_files |-> None,           \* deploy_component: ifs_files
     ifs_archive |-> None,         \* deploy_component: ifs_archive
     linked_wasm |-> None,         \* deploy_component: linked_wasm
     component |-> None,           \* deploy_component: component (the value returned)
     components |-> <<>>,          \* deploy: components / the batch of the worker step
     w |-> 0,                      \* worker step: index of the component in the for loop
     update |-> None,              \* update_workers_by_components: update
     update_results |-> <<>>,      \* update_workers_by_components: update_results
     component_views |-> <<>>,     \* cmd_get: component_views
     warnings |-> <<>>,            \* components_for_update_or_redeploy: names given to log_warn
     logged |-> None]              \* the view given to log_handler().log_view

WorkerUpdateModes == {"Automatic", "Manual"}

----------------------------------------------------------------------------
\* The worker handler's contract (WorkerLifecycleBridge, spec section 6)

\* update_component_workers(name, id, update, target_version): the outcomes of
\* the workers it tried to update (a worker's failed update is an outcome), or
\* an error.
update_component_workers_responses(comp) ==
    {Ok(<<[component_name |-> comp.component_name, outcome |-> o]>>) :
        o \in {"triggered", "failed"}}
    \cup {Err(<<"worker", "other">>)}

\* redeploy_component_workers(name, id): done, or an error.
redeploy_component_workers_responses(comp) ==
    {Ok(Unit), Err(<<"worker", "other">>)}

update_component_workers_call(comp, update) ==
    [op |-> "update_component_workers", name |-> comp.component_name,
     id |-> comp.component_id, update |-> update,
     target_version |-> comp.version]

redeploy_component_workers_call(comp) ==
    [op |-> "redeploy_component_workers", name |-> comp.component_name,
     id |-> comp.component_id]

----------------------------------------------------------------------------
\* ComponentCommandHandler::update_workers_by_components

\* Lines 830-840: an empty batch returns Ok(()) at once; otherwise the loop
\* starts with an empty TryUpdateAllWorkersResult.
EnterUpdateWorkers(fr, components, update) ==
    IF components = <<>>
    THEN /\ frame' = [fr EXCEPT !.pc = "returned", !.components = components]
         /\ ret' = Ok(Unit)
    ELSE /\ frame' = [fr EXCEPT !.pc = "update_workers", !.components = components,
                                !.w = 1, !.update = Some(update),
                                !.update_results = <<>>]
         /\ ret' = NoRet

\* Faulty variant of update_step: after a failed call the same component is
\* tried again.
update_step_retries(fr, resp) ==
    IF resp.ok
    THEN [frame |-> [fr EXCEPT !.update_results = @ \o resp.val, !.w = @ + 1],
          ret |-> NoRet]
    ELSE [frame |-> fr, ret |-> NoRet]

\* Lines 842-852, after the call: `?` returns the error, otherwise
\* update_results.extend(result).
update_step(fr, resp) ==
    IF resp.ok
    THEN [frame |-> [fr EXCEPT !.update_results = @ \o resp.val, !.w = @ + 1],
          ret |-> NoRet]
    ELSE [frame |-> [fr EXCEPT !.pc = "returned"], ret |-> Err(resp.err)]

\* Lines 841-853: one iteration of `for component in &components`.
UpdateWorkersStep ==
    /\ frame.pc = "update_workers"
    /\ frame.w <= Len(frame.components)
    /\ LET comp == frame.components[frame.w] IN
       \E resp \in update_component_workers_responses(comp) :
       LET next == update_step(frame, resp) IN
       /\ calls' = Append(calls,
              Called(update_component_workers_call(comp, frame.update.val), resp))
       /\ frame' = next.frame
       /\ ret' = next.ret
    /\ UNCHANGED <<store, next_id, cmd>>

\* Lines 855-856: the aggregate is logged and Ok(()) returned.
UpdateWorkersDone ==
    /\ frame.pc = "update_workers"
    /\ frame.w > Len(frame.components)
    /\ frame' = [frame EXCEPT !.pc = "returned", !.logged = Some(frame.update_results)]
    /\ ret' = Ok(Unit)
    /\ UNCHANGED <<store, next_id, calls, cmd>>

----------------------------------------------------------------------------
\* ComponentCommandHandler::redeploy_workers_by_components

\* Lines 863-868.
EnterRedeployWorkers(fr, components) ==
    IF components = <<>>
    THEN /\ frame' = [fr EXCEPT !.pc = "returned", !.components = components]
         /\ ret' = Ok(Unit)
    ELSE /\ frame' = [fr EXCEPT !.pc = "redeploy_workers", !.components = components,
                                !.w = 1]
         /\ ret' = NoRet

\* Faulty variant of redeploy_step: the error of a component is dropped and
\* the loop goes on.
redeploy_step_skips_error(fr, resp) ==
    [frame |-> [fr EXCEPT !.w = @ + 1], ret |-> NoRet]

\* Lines 871-877, after the call: `?` returns the error.
redeploy_step(fr, resp) ==
    IF resp.ok
    THEN [frame |-> [fr EXCEPT !.w = @ + 1], ret |-> NoRet]
    ELSE [frame |-> [fr EXCEPT !.pc = "returned"], ret |-> Err(resp.err)]

\* Faulty variant of RedeployWorkersStep: when the redeploy of a component
\* fails, the versions of the batch are taken out of the store again.
RedeployWorkersStep_rolls_back ==
    /\ frame.pc = "redeploy_workers"
    /\ frame.w <= Len(frame.components)
    /\ LET comp == frame.components[frame.w] IN
       \E resp \in redeploy_component_workers_responses(comp) :
       LET next == redeploy_step(frame, resp) IN
       /\ calls' = Append(calls, Called(redeploy_component_workers_call(comp), resp))
       /\ frame' = next.frame
       /\ ret' = next.ret
       /\ store' = IF resp.ok THEN store
                   ELSE store \ {frame.components[k] : k \in 1..Len(frame.components)}
    /\ UNCHANGED <<next_id, cmd>>

\* Lines 870-878: one iteration of `for component in &components`.
RedeployWorkersStep ==
    /\ frame.pc = "redeploy_workers"
    /\ frame.w <= Len(frame.components)
    /\ LET comp == frame.components[frame.w] IN
       \E resp \in redeploy_component_workers_responses(comp) :
       LET next == redeploy_step(frame, resp) IN
       /\ calls' = Append(calls, Called(redeploy_component_workers_call(comp), resp))
       /\ frame' = next.frame
       /\ ret' = next.ret
    /\ UNCHANGED <<store, next_id, cmd>>

\* Line 883.
RedeployWorkersDone ==
    /\ frame.pc = "redeploy_workers"
    /\ frame.w > Len(frame.components)
    /\ frame' = [frame EXCEPT !.pc = "returned"]
    /\ ret' = Ok(Unit)
    /\ UNCHANGED <<store, next_id, calls, cmd>>

----------------------------------------------------------------------------
\* Specification of the worker lifecycle batch: update_workers_by_components
\* and redeploy_workers_by_components over every batch of deployed components

\* Largest batch of components handed to the worker step.
MaxBatch == 3

PoolNames == <<"a", "b", "c", "d", "e">>

\* Component i of the pool has been deployed i times (versions 0..i-1).
PoolStore == {Component(i, PoolNames[i], v) : i \in 1..MaxBatch, v \in 0..MaxBatch - 1}

LatestRecords ==
    {c \in store : \A d \in RecordsById(c.component_id) : d.version <= c.version}

\* The batches a caller can hand over: latest records of distinct components.
Batches ==
    UNION {Perms(S) : S \in SUBSET LatestRecords}

CmdUpdateWorkersByComponents ==
    /\ cmd = Idle
    /\ \E components \in Batches, update \in WorkerUpdateModes :
       /\ cmd' = [op |-> "update_workers_by_components",
                  components |-> components, update |-> update]
       /\ EnterUpdateWorkers(NewFrame, components, update)
    /\ UNCHANGED <<store, next_id, calls>>

CmdRedeployWorkersByComponents ==
    /\ cmd = Idle
    /\ \E components \in Batches :
       /\ cmd' = [op |-> "redeploy_workers_by_components", components |-> components]
       /\ EnterRedeployWorkers(NewFrame, components)
    /\ UNCHANGED <<store, next_id, calls>>

InitWorkers ==
    /\ store = {c \in PoolStore : c.version < c.component_id}
    /\ next_id = MaxBatch + 1
    /\ calls = <<>>
    /\ cmd = Idle
    /\ frame = NoFrame
    /\ ret = NoRet

NextWorkers ==
    \/ CmdUpdateWorkersByComponents
    \/ CmdRedeployWorkersByComponents
    \/ UpdateWorkersStep
    \/ UpdateWorkersDone
    \/ RedeployWorkersStep
    \/ RedeployWorkersDone
    \/ Return

SpecWorkers == InitWorkers /\ [][NextWorkers]_vars

----------------------------------------------------------------------------
\* app_component_dynamic_linking

\* Most dependencies a component declares.
MaxDeps == 2

DependencyNames == {<<"dep", i>> : i \in 1..MaxDeps}
DependencyTypes == {"DynamicWasmRpc", "StaticWasmRpc"}
StubInterfaceNames == {"s1", "s2"}

\* application.component_dependencies(component_name): the declared
\* dependencies, each of them once, in the order of the application.
DeclaredDependencies ==
    UNION {UNION {{[i \in 1..Len(p) |-> [name |-> p[i], dep_type |-> t[i]]] :
                      t \in [1..Len(p) -> DependencyTypes]} : p \in Perms(S)} :
              S \in SUBSET DependencyNames}

\* The (resource name, exported interface name) pairs of a stub.
ExportedInterfaces ==
    {<<>>, <<<<"r1", "i1">>>>, <<<<"r1", "i1">>, <<"r2", "i2">>>>}

\* app_ctx.component_stub_interfaces(dep_name): the stub interfaces of the
\* dependency, or an error when it was not built.
component_stub_interfaces_results(dep_name) ==
    {Ok([stub_interface_name |-> s,
         component_name |-> dep_name,
         is_ephemeral |-> e,
         exported_interfaces_per_stub_resource |-> x]) :
        s \in StubInterfaceNames, e \in BOOLEAN, x \in ExportedInterfaces}
    \cup {Err(<<"app", "stub interfaces">>)}

\* Faulty variant of from_iter: of two pairs with the same key the earlier one
\* stays.
from_iter_keeps_first(pairs) ==
    [k \in {pairs[i][1] : i \in 1..Len(pairs)} |->
        pairs[CHOOSE i \in 1..Len(pairs) :
                 /\ pairs[i][1] = k
                 /\ \A j \in 1..Len(pairs) : pairs[j][1] = k => i <= j][2]]

\* HashMap::from_iter: of two pairs with the same key the later one stays.
from_iter(pairs) ==
    [k \in {pairs[i][1] : i \in 1..Len(pairs)} |->
        pairs[MaxOf({i \in 1..Len(pairs) : pairs[i][1] = k})][2]]

\* Faulty variant of wasm_rpc_deps: the dependencies are not filtered.
wasm_rpc_deps_unfiltered(deps) == deps

\* Lines 1272-1278: the dependencies of type DynamicWasmRpc, in order.
wasm_rpc_deps(deps) ==
    SelectSeq(deps, LAMBDA dep : dep.dep_type = "DynamicWasmRpc")

\* Lines 1299-1310
WasmRpcTarget(stub_interfaces, interface_name) ==
    [interface_name |-> interface_name,
     component_name |-> stub_interfaces.component_name,
     component_type |-> IF stub_interfaces.is_ephemeral THEN "Ephemeral"
                        ELSE "Durable"]

\* Lines 1289-1315: the entry of one stub
DynamicLinkedInstance(stub_interfaces) ==
    LET exported == stub_interfaces.exported_interfaces_per_stub_resource IN
    <<stub_interfaces.stub_interface_name,
      [kind |-> "WasmRpc",
       targets |-> from_iter([i \in 1..Len(exported) |->
                       <<exported[i][1],
                         WasmRpcTarget(stub_interfaces, exported[i][2])>>])]>>

\* Faulty variant of DynamicLinking: an empty mapping gives an empty map.
DynamicLinking_some_when_empty(mapping) ==
    Ok(Some([dynamic_linking |->
                from_iter([i \in 1..Len(mapping) |->
                              DynamicLinkedInstance(mapping[i])])]))

\* Lines 1284-1318: None for an empty mapping, the map of its stubs otherwise
DynamicLinking(mapping) ==
    IF mapping = <<>> THEN Ok(None)
    ELSE Ok(Some([dynamic_linking |->
                     from_iter([i \in 1..Len(mapping) |->
                                   DynamicLinkedInstance(mapping[i])])]))

\* Faulty variant of app_component_dynamic_linking: a dependency whose stub
\* interfaces are not resolved is left out of the map.
app_component_dynamic_linking_skips_unresolved(deps, stubs) ==
    LET rpc == SelectSeq(wasm_rpc_deps(deps), LAMBDA dep : stubs[dep.name].ok) IN
    DynamicLinking([i \in 1..Len(rpc) |-> stubs[rpc[i].name].val])

\* Lines 1266-1319, where stubs[dep_name] is the result of
\* component_stub_interfaces for the dependencies it is called for: the first
\* error is returned (line 1281).
app_component_dynamic_linking(deps, stubs) ==
    LET rpc == wasm_rpc_deps(deps)
        failed == {i \in 1..Len(rpc) : ~stubs[rpc[i].name].ok} IN
    IF failed # {} THEN stubs[rpc[CHOOSE i \in failed : \A j \in failed : i <= j].name]
    ELSE DynamicLinking([i \in 1..Len(rpc) |-> stubs[rpc[i].name].val])

\* The stub interfaces of the dependencies component_stub_interfaces is
\* called for.
StubResults(deps) ==
    LET names == {wasm_rpc_deps(deps)[i].name : i \in 1..Len(wasm_rpc_deps(deps))} IN
    {f \in [names -> UNION {component_stub_interfaces_results(n) : n \in names}] :
        \A n \in names : f[n] \in component_stub_interfaces_results(n)}

----------------------------------------------------------------------------
\* component_deploy_properties

DeployableComponentTypes == {"Durable", "Ephemeral"}
ComponentTypes == DeployableComponentTypes \cup {"Library"}
InitialFiles == {<<>>, <<"f1">>}

\* Lines 1240-1264, given the component's declared type and files and the
\* result of app_component_dynamic_linking.
component_deploy_properties(name, component_type, files, dynamic_linking) ==
    IF component_type \notin DeployableComponentTypes
    THEN Err(<<"app", "not deployable">>)
    ELSE IF ~dynamic_linking.ok THEN dynamic_linking
    ELSE Ok([component_type |-> component_type,
             linked_wasm_path |-> <<"linked_wasm", name>>,
             files |-> files,
             dynamic_linking |-> dynamic_linking.val])

----------------------------------------------------------------------------
\* ComponentCommandHandler::deploy and deploy_component

\* The stub interfaces the application resolves for a built dependency.
DeployStub(dep_name) ==
    Ok([stub_interface_name |-> "s1", component_name |-> dep_name,
        is_ephemeral |-> FALSE,
        exported_interfaces_per_stub_resource |-> <<<<"r1", "i1">>>>])

\* What the application declares for a component that is deployed: no
\* dependency, one dynamic dependency that is resolved or not, or two of
\* which the second is not resolved.
DeployDependencies ==
    LET dep(i) == [name |-> <<"dep", i>>, dep_type |-> "DynamicWasmRpc"]
        unresolved == Err(<<"app", "stub interfaces">>) IN
    {[deps |-> <<>>, stubs |-> <<>>],
     [deps |-> <<dep(1)>>, stubs |-> [n \in {<<"dep", 1>>} |-> DeployStub(n)]],
     [deps |-> <<dep(1)>>, stubs |-> [n \in {<<"dep", 1>>} |-> unresolved]],
     [deps |-> <<dep(1), dep(2)>>,
      stubs |-> [n \in {<<"dep", 1>>, <<"dep", 2>>} |->
                    IF n = <<"dep", 1>> THEN DeployStub(n) ELSE unresolved]]}

Selections == UNION {Perms(S) : S \in SUBSET ComponentNames}

UpdateOrRedeployArgs ==
    [update_workers : {None} \cup {Some(m) : m \in WorkerUpdateModes},
     redeploy_workers : BOOLEAN]

\* The backends and the projects a command can run against.
Targets == {<<"Oss", None>>} \cup {<<"Cloud", p>> : p \in OptProjects}

ReturnErr(e) ==
    /\ frame' = [frame EXCEPT !.pc = "returned"]
    /\ ret' = Err(e)

Log(call, resp) == calls' = Append(calls, Called(call, resp))

CmdDeploy ==
    /\ cmd = Idle
    /\ \E target \in Targets, clients_ok \in BOOLEAN,
          update_or_redeploy \in UpdateOrRedeployArgs :
       cmd' = [op |-> "deploy", backend |-> target[1], project |-> target[2],
               clients_ok |-> clients_ok, update_or_redeploy |-> update_or_redeploy]
    /\ frame' = [NewFrame EXCEPT !.pc = "build"]
    /\ UNCHANGED <<store, next_id, calls, ret>>

\* Faulty variant of DeployBuild: the result of the build is not looked at.
DeployBuild_ignores_failure ==
    /\ frame.pc = "build"
    /\ \E resp \in {Ok(Unit), Err(<<"build", "failed">>)} :
       /\ Log([op |-> "build"], resp)
       /\ frame' = [frame EXCEPT !.pc = "select"]
       /\ ret' = ret
    /\ UNCHANGED <<store, next_id, cmd>>

\* Lines 574-584: app_handler().build(...).await?
DeployBuild ==
    /\ frame.pc = "build"
    /\ \E resp \in {Ok(Unit), Err(<<"build", "failed">>)} :
       /\ Log([op |-> "build"], resp)
       /\ IF resp.ok
          THEN frame' = [frame EXCEPT !.pc = "select"] /\ ret' = ret
          ELSE ReturnErr(resp.err)
    /\ UNCHANGED <<store, next_id, cmd>>

\* Lines 588-597: the selected component names are read from the application
\* context (some_or_err fails when there is none), which also holds the
\* properties its manifest declares for each of them. The guard of the lock
\* lives in the block: it is gone when the block is left, by `?` as well.
DeploySelect ==
    /\ frame.pc = "select"
    /\ \/ \E selected \in Selections :
          \E component_types \in [1..Len(selected) -> ComponentTypes] :
            /\ frame' = [frame EXCEPT !.pc = "loop", !.selected = selected,
                                      !.component_types = component_types, !.i = 1,
                                      !.app_ctx = FALSE]
            /\ ret' = ret
       \/ /\ frame' = [frame EXCEPT !.pc = "returned", !.app_ctx = FALSE]
          /\ ret' = Err(<<"app", "no application">>)
    /\ UNCHANGED <<store, next_id, calls, cmd>>

\* Line 605: `let app_ctx = self.ctx.app_context_lock().await` at the head of
\* an iteration of `for component_name in &selected_component_names`.
DeployLock ==
    /\ frame.pc = "loop"
    /\ frame.i <= Len(frame.selected)
    /\ frame' = [frame EXCEPT !.pc = "locked", !.app_ctx = TRUE]
    /\ UNCHANGED <<store, next_id, calls, cmd, ret>>

\* Faulty variant of DeployNext: every selected component is deployed, whatever
\* its declared type.
DeployNext_deploys_every_component ==
    /\ frame.pc = "locked"
    /\ frame' = [frame EXCEPT !.pc = "lookup", !.app_ctx = FALSE]
    /\ UNCHANGED <<store, next_id, calls, cmd, ret>>

\* Faulty variant of DeployNext: the properties of a deployable component are
\* computed without looking the component up first.
DeployNext_skips_lookup ==
    /\ frame.pc = "locked"
    /\ IF frame.component_types[frame.i] \in DeployableComponentTypes
       THEN frame' = [frame EXCEPT !.pc = "properties", !.app_ctx = FALSE]
       ELSE frame' = [frame EXCEPT !.pc = "loop", !.i = @ + 1, !.app_ctx = FALSE]
    /\ UNCHANGED <<store, next_id, calls, cmd, ret>>

\* Faulty variant of DeployNext: the guard outlives the iteration of a
\* component that is not deployable.
DeployNext_keeps_guard ==
    /\ frame.pc = "locked"
    /\ IF frame.component_types[frame.i] \in DeployableComponentTypes
       THEN frame' = [frame EXCEPT !.pc = "lookup", !.app_ctx = FALSE]
       ELSE frame' = [frame EXCEPT !.pc = "loop", !.i = @ + 1]
    /\ UNCHANGED <<store, next_id, calls, cmd, ret>>

\* Lines 606-618: is_deployable() is read under the guard. For a deployable
\* component the guard is dropped (line 613) before deploy_component is
\* awaited; a component that is not deployable is passed over, and the guard
\* goes out of scope at the end of the iteration.
DeployNext ==
    /\ frame.pc = "locked"
    /\ IF frame.component_types[frame.i] \in DeployableComponentTypes
       THEN frame' = [frame EXCEPT !.pc = "lookup", !.app_ctx = FALSE]
       ELSE frame' = [frame EXCEPT !.pc = "loop", !.i = @ + 1, !.app_ctx = FALSE]
    /\ UNCHANGED <<store, next_id, calls, cmd, ret>>

\* Faulty variant of DeployComponentLookup: the name looked up is the first
\* selected one, not the one being deployed.
DeployComponentLookup_of_first_selected ==
    /\ frame.pc = "lookup"
    /\ LET name == frame.selected[1] IN
       \E r1 \in listed_in_version_order(get_components_responses(name)) :
       LET out == component_id_by_name(cmd.clients_ok, cmd.backend, cmd.project,
                                       name, r1) IN
       /\ calls' = calls \o out.calls
       /\ IF out.ret.ok
          THEN /\ frame' = [frame EXCEPT !.pc = "properties",
                                         !.component_id = out.ret.val]
               /\ ret' = ret
          ELSE ReturnErr(out.ret.err)
    /\ UNCHANGED <<store, next_id, cmd>>

\* Faulty variant of DeployComponentLookup: a component whose lookup fails is
\* passed over and the loop goes on.
DeployComponentLookup_skips_on_error ==
    /\ frame.pc = "lookup"
    /\ LET name == frame.selected[frame.i] IN
       \E r1 \in listed_in_version_order(get_components_responses(name)) :
       LET out == component_id_by_name(cmd.clients_ok, cmd.backend, cmd.project,
                                       name, r1) IN
       /\ calls' = calls \o out.calls
       /\ IF out.ret.ok
          THEN frame' = [frame EXCEPT !.pc = "properties",
                                      !.component_id = out.ret.val]
          ELSE frame' = [frame EXCEPT !.pc = "loop", !.i = @ + 1]
       /\ ret' = ret
    /\ UNCHANGED <<store, next_id, cmd>>

\* Lines 639-641: component_id_by_name(project, component_name).await?
DeployComponentLookup ==
    /\ frame.pc = "lookup"
    /\ LET name == frame.selected[frame.i] IN
       \E r1 \in listed_in_version_order(get_components_responses(name)) :
       LET out == component_id_by_name(cmd.clients_ok, cmd.backend, cmd.project,
                                       name, r1) IN
       /\ calls' = calls \o out.calls
       /\ IF out.ret.ok
          THEN /\ frame' = [frame EXCEPT !.pc = "properties",
                                         !.component_id = out.ret.val]
               /\ ret' = ret
          ELSE ReturnErr(out.ret.err)
    /\ UNCHANGED <<store, next_id, cmd>>

\* Faulty variant of DeployComponentProperties: the archive is built whether
\* or not the component has initial files.
DeployComponentProperties_always_archives ==
    /\ frame.pc = "properties"
    /\ \E files \in InitialFiles, declared \in DeployDependencies :
       LET props == component_deploy_properties(frame.selected[frame.i],
                        frame.component_types[frame.i], files,
                        app_component_dynamic_linking(declared.deps, declared.stubs)) IN
       IF props.ok
       THEN /\ frame' = [frame EXCEPT !.deploy_properties = Some(props.val),
                             !.dependencies = Some(declared),
                             !.app_ctx = FALSE,
                             !.pc = "archive"]
            /\ ret' = ret
       ELSE /\ frame' = [frame EXCEPT !.pc = "returned",
                                      !.dependencies = Some(declared),
                                      !.app_ctx = FALSE]
            /\ ret' = Err(props.err)
    /\ UNCHANGED <<store, next_id, calls, cmd>>

\* Lines 642-646: component_deploy_properties under app_context_lock_mut(),
\* whose guard lives in the block (it is gone when the block is left, by `?`
\* as well). The application gives the files and the dependencies of the
\* component and resolves the stub interfaces of the dependencies.
DeployComponentProperties ==
    /\ frame.pc = "properties"
    /\ \E files \in InitialFiles, declared \in DeployDependencies :
       LET props == component_deploy_properties(frame.selected[frame.i],
                        frame.component_types[frame.i], files,
                        app_component_dynamic_linking(declared.deps, declared.stubs)) IN
       IF props.ok
       THEN /\ frame' = [frame EXCEPT !.deploy_properties = Some(props.val),
                             !.dependencies = Some(declared),
                             !.app_ctx = FALSE,
                             !.pc = IF props.val.files # <<>> THEN "archive"
                                    ELSE "open_wasm"]
            /\ ret' = ret
       ELSE /\ frame' = [frame EXCEPT !.pc = "returned",
                                      !.dependencies = Some(declared),
                                      !.app_ctx = FALSE]
            /\ ret' = Err(props.err)
    /\ UNCHANGED <<store, next_id, calls, cmd>>

\* Lines 648-658: the initial-files archive is built (files non-empty only).
DeployComponentArchive ==
    /\ frame.pc = "archive"
    /\ \E resp \in {Ok([properties |-> frame.deploy_properties.val.files,
                        archive_path |-> "archive"]),
                    Err(<<"ifs", "archive">>)} :
       /\ Log([op |-> "build_files_archive",
               files |-> frame.deploy_properties.val.files], resp)
       /\ IF resp.ok
          THEN /\ frame' = [frame EXCEPT !.pc = "open_archive",
                                         !.ifs_files = Some(resp.val)]
               /\ ret' = ret
          ELSE ReturnErr(resp.err)
    /\ UNCHANGED <<store, next_id, cmd>>

\* Lines 660-671: the archive is opened.
DeployComponentOpenArchive ==
    /\ frame.pc = "open_archive"
    /\ \/ /\ frame' = [frame EXCEPT !.pc = "open_wasm",
                           !.ifs_archive = Some(frame.ifs_files.val.archive_path)]
          /\ ret' = ret
       \/ ReturnErr(<<"io", "Failed to open IFS archive">>)
    /\ UNCHANGED <<store, next_id, calls, cmd>>

\* Lines 673-684: the linked WASM is opened.
DeployComponentOpenWasm ==
    /\ frame.pc = "open_wasm"
    /\ \/ /\ frame' = [frame EXCEPT !.pc = "mutate",
                  !.linked_wasm = Some(frame.deploy_properties.val.linked_wasm_path)]
          /\ ret' = ret
       \/ ReturnErr(<<"io", "Failed to open component linked WASM">>)
    /\ UNCHANGED <<store, next_id, calls, cmd>>

\* Faulty variant of mutate_call: create is called whether or not the lookup
\* found the component.
mutate_call_always_creates(backend, project, name, fr) ==
    [op |-> "create_component", backend |-> backend,
     project |-> IF backend = "Oss" THEN None ELSE project,
     name |-> name,
     component_type |-> Some(fr.deploy_properties.val.component_type),
     linked_wasm |-> fr.linked_wasm.val,
     ifs_properties |-> IF fr.ifs_files.some
                        THEN Some(fr.ifs_files.val.properties) ELSE None,
     ifs_archive |-> fr.ifs_archive,
     dynamic_linking |-> fr.deploy_properties.val.dynamic_linking]

\* Faulty variant of mutate_call: update is called with the id that follows
\* the one the lookup returned.
mutate_call_updates_other_id(backend, project, name, fr) ==
    IF fr.component_id.some
    THEN [op |-> "update_component", backend |-> backend,
          id |-> fr.component_id.val + 1,
          component_type |-> Some(fr.deploy_properties.val.component_type),
          linked_wasm |-> fr.linked_wasm.val,
          ifs_properties |-> IF fr.ifs_files.some
                             THEN Some(fr.ifs_files.val.properties) ELSE None,
          ifs_archive |-> fr.ifs_archive,
          dynamic_linking |-> fr.deploy_properties.val.dynamic_linking]
    ELSE mutate_call_always_creates(backend, project, name, fr)

\* Lines 686-789: the one mutating call of deploy_component: update_component
\* with the id of the lookup (Some(component_id)), or create_component with
\* the name (None).
mutate_call(backend, project, name, fr) ==
    IF fr.component_id.some
    THEN [op |-> "update_component", backend |-> backend,
          id |-> fr.component_id.val,
          component_type |-> Some(fr.deploy_properties.val.component_type),
          linked_wasm |-> fr.linked_wasm.val,
          ifs_properties |-> IF fr.ifs_files.some
                             THEN Some(fr.ifs_files.val.properties) ELSE None,
          ifs_archive |-> fr.ifs_archive,
          dynamic_linking |-> fr.deploy_properties.val.dynamic_linking]
    ELSE [op |-> "create_component", backend |-> backend,
          project |-> IF backend = "Oss" THEN None ELSE project,
          name |-> name,
          component_type |-> Some(fr.deploy_properties.val.component_type),
          linked_wasm |-> fr.linked_wasm.val,
          ifs_properties |-> IF fr.ifs_files.some
                             THEN Some(fr.ifs_files.val.properties) ELSE None,
          ifs_archive |-> fr.ifs_archive,
          dynamic_linking |-> fr.deploy_properties.val.dynamic_linking]

\* Faulty variant of DeployComponentMutate: when create is refused because the
\* name is bound, the component is looked up again and deployed as an update.
DeployComponentMutate_retries_on_conflict ==
    /\ frame.pc = "mutate"
    /\ IF ~cmd.clients_ok
       THEN /\ ReturnErr(<<"clients", "unavailable">>)
            /\ UNCHANGED <<store, next_id, calls>>
       ELSE LET call == mutate_call(cmd.backend, cmd.project,
                                    frame.selected[frame.i], frame) IN
            \E o \in (IF call.op = "update_component"
                      THEN update_component_outcomes(call.id)
                      ELSE create_component_outcomes(call.name)) :
            LET returned == map_service_error(o.resp) IN
            /\ Log(call, o.resp)
            /\ store' = o.store
            /\ next_id' = o.next_id
            /\ IF returned.ok
               THEN /\ frame' = [frame EXCEPT !.pc = "deployed",
                                              !.component = Some(returned.val)]
                    /\ ret' = ret
               ELSE IF o.resp = Err("conflict")
                    THEN /\ frame' = [frame EXCEPT !.pc = "lookup"]
                         /\ ret' = ret
                    ELSE ReturnErr(returned.err)
    /\ UNCHANGED cmd

\* Lines 686-790: the call is awaited, its error returned (map_service_error()?),
\* its component returned otherwise.
DeployComponentMutate ==
    /\ frame.pc = "mutate"
    /\ IF ~cmd.clients_ok
       THEN /\ ReturnErr(<<"clients", "unavailable">>)
            /\ UNCHANGED <<store, next_id, calls>>
       ELSE LET call == mutate_call(cmd.backend, cmd.project,
                                    frame.selected[frame.i], frame) IN
            \E o \in (IF call.op = "update_component"
                      THEN update_component_outcomes(call.id)
                      ELSE create_component_outcomes(call.name)) :
            LET returned == map_service_error(o.resp) IN
            /\ Log(call, o.resp)
            /\ store' = o.store
            /\ next_id' = o.next_id
            /\ IF returned.ok
               THEN /\ frame' = [frame EXCEPT !.pc = "deployed",
                                              !.component = Some(returned.val)]
                    /\ ret' = ret
               ELSE ReturnErr(returned.err)
    /\ UNCHANGED cmd

\* Lines 613-616: deploy_component has returned Ok(component); it is pushed
\* and the loop goes on (the locals of deploy_component are gone).
DeployComponentReturn ==
    /\ frame.pc = "deployed"
    /\ frame' = [frame EXCEPT !.pc = "loop", !.i = @ + 1,
                              !.components = Append(@, frame.component.val),
                              !.component_id = None, !.deploy_properties = None,
                              !.dependencies = None,
                              !.ifs_files = None, !.ifs_archive = None,
                              !.linked_wasm = None, !.component = None]
    /\ UNCHANGED <<store, next_id, calls, cmd, ret>>

\* Faulty variant of DeployLifecycle: the redeploy flag is looked at first.
DeployLifecycle_redeploy_first ==
    /\ frame.pc = "loop"
    /\ frame.i > Len(frame.selected)
    /\ IF cmd.update_or_redeploy.redeploy_workers
       THEN EnterRedeployWorkers(frame, frame.components)
       ELSE IF cmd.update_or_redeploy.update_workers.some
            THEN EnterUpdateWorkers(frame, frame.components,
                                    cmd.update_or_redeploy.update_workers.val)
            ELSE /\ frame' = [frame EXCEPT !.pc = "returned"]
                 /\ ret' = Ok(Unit)
    /\ UNCHANGED <<store, next_id, calls, cmd>>

\* Lines 623-630: the post-deploy worker step.
DeployLifecycle ==
    /\ frame.pc = "loop"
    /\ frame.i > Len(frame.selected)
    /\ IF cmd.update_or_redeploy.update_workers.some
       THEN EnterUpdateWorkers(frame, frame.components,
                               cmd.update_or_redeploy.update_workers.val)
       ELSE IF cmd.update_or_redeploy.redeploy_workers
            THEN EnterRedeployWorkers(frame, frame.components)
            ELSE /\ frame' = [frame EXCEPT !.pc = "returned"]
                 /\ ret' = Ok(Unit)
    /\ UNCHANGED <<store, next_id, calls, cmd>>

NextDeploy ==
    \/ CmdDeploy
    \/ DeployBuild
    \/ DeploySelect
    \/ DeployLock
    \/ DeployNext
    \/ DeployComponentLookup
    \/ DeployComponentProperties
    \/ DeployComponentArchive
    \/ DeployComponentOpenArchive
    \/ DeployComponentOpenWasm
    \/ DeployComponentMutate
    \/ DeployComponentReturn
    \/ DeployLifecycle
    \/ UpdateWorkersStep
    \/ UpdateWorkersDone
    \/ RedeployWorkersStep
    \/ RedeployWorkersDone
    \/ Return

\* deploy against a store that only this client modifies.
SpecDeploy == InitStore /\ [][NextDeploy]_vars

----------------------------------------------------------------------------
\* deploy while another client of the store creates components

\* Another client's create is served by the store while deploy is running.
ConcurrentCreate(name) ==
    /\ cmd # Idle
    /\ cmd.op = "deploy"
    /\ ret = NoRet
    /\ \E o \in create_component_outcomes(name) :
       /\ o.resp.ok
       /\ store' = o.store
       /\ next_id' = o.next_id
    /\ UNCHANGED <<calls, cmd, frame, ret>>

NextDeployRace ==
    \/ CmdDeploy
    \/ DeployBuild
    \/ DeploySelect
    \/ DeployLock
    \/ DeployNext
    \/ DeployComponentLookup
    \/ DeployComponentProperties
    \/ DeployComponentArchive
    \/ DeployComponentOpenArchive
    \/ DeployComponentOpenWasm
    \/ DeployComponentMutate
    \/ DeployComponentReturn
    \/ DeployLifecycle
    \/ UpdateWorkersStep
    \/ UpdateWorkersDone
    \/ RedeployWorkersStep
    \/ RedeployWorkersDone
    \/ \E n \in ComponentNames : ConcurrentCreate(n)

\* One deploy, from an empty store, racing with the creates of other clients.
SpecDeployRace == InitStore /\ [][NextDeployRace]_vars

----------------------------------------------------------------------------
\* ComponentCommandHandler::select_components_by_app_or_name_internal

\* Longest raw component name given on the command line.
MaxRawLen == 5

\* A raw name is a string over these characters, modelled as their sequence.
Chars == {"a", "b", "/"}
RawNames == UNION {[1..n -> Chars] : n \in 0..MaxRawLen}

\* str::split("/") (line 938): the pieces between the separators, empty
\* pieces included; a string without separator is its own single piece.
RECURSIVE split(_)
split(s) ==
    IF \A i \in 1..Len(s) : s[i] # "/" THEN <<s>>
    ELSE LET i == CHOOSE k \in 1..Len(s) :
                      s[k] = "/" /\ \A j \in 1..(k - 1) : s[j] # "/" IN
         <<SubSeq(s, 1, i - 1)>> \o split(SubSeq(s, i + 1, Len(s)))

\* Lines 907-927: empty_checked(name, value)
empty_checked(name, value) ==
    IF value = <<>> THEN Err(<<"Missing part in component name", name>>)
    ELSE Ok(value)

empty_checked_account(value) == empty_checked("account", value)
empty_checked_project(value) == empty_checked("project", value)
empty_checked_component(value) == empty_checked("component", value)

\* cloud_project_handler().select_project(account_id, project_name): the
\* project of that name, or an error.
select_project_responses(account_id, project_name) ==
    {Ok([project_name |-> project_name, project_id |-> "p1"]),
     Err(<<"project", "not_found">>)}

select_project_call(account_id, project_name) ==
    [op |-> "select_project", account_id |-> account_id,
     project_name |-> project_name]

Parsed(account_id, project, component_name) ==
    [account_id |-> account_id, project |-> project,
     component_name |-> component_name]

Returned(r, c) == [ret |-> r, calls |-> c]

\* Lines 940-944: one segment
parse_one(segments) ==
    LET name == empty_checked_component(segments[1]) IN
    IF ~name.ok THEN Returned(name, <<>>)
    ELSE Returned(Ok(Parsed(None, None, Some(name.val))), <<>>)

\* Faulty variant of parse_two: the two segments are taken in the other order.
parse_two_swaps_segments(segments, rp) ==
    LET project_name == empty_checked_project(segments[2]) IN
    IF ~project_name.ok THEN Returned(project_name, <<>>)
    ELSE
    LET c == <<Called(select_project_call(None, project_name.val), rp)>>
        name == empty_checked_component(segments[1]) IN
    IF ~rp.ok THEN Returned(rp, c)
    ELSE IF ~name.ok THEN Returned(name, c)
    ELSE Returned(Ok(Parsed(None, Some(rp.val), Some(name.val))), c)

\* Lines 945-957: two segments; the tuple is evaluated from left to right, the
\* project is resolved before the component segment is checked.
parse_two(segments, rp) ==
    LET project_name == empty_checked_project(segments[1]) IN
    IF ~project_name.ok THEN Returned(project_name, <<>>)
    ELSE
    LET c == <<Called(select_project_call(None, project_name.val), rp)>>
        name == empty_checked_component(segments[2]) IN
    IF ~rp.ok THEN Returned(rp, c)
    ELSE IF ~name.ok THEN Returned(name, c)
    ELSE Returned(Ok(Parsed(None, Some(rp.val), Some(name.val))), c)

\* Faulty variant of parse_three: the component is read from the project's
\* segment.
parse_three_repeats_project(segments, rp) ==
    LET account_id == empty_checked_account(segments[1]) IN
    IF ~account_id.ok THEN Returned(account_id, <<>>)
    ELSE
    LET project_name == empty_checked_project(segments[2]) IN
    IF ~project_name.ok THEN Returned(project_name, <<>>)
    ELSE
    LET c == <<Called(select_project_call(Some(account_id.val), project_name.val),
                      rp)>>
        name == empty_checked_component(segments[2]) IN
    IF ~rp.ok THEN Returned(rp, c)
    ELSE IF ~name.ok THEN Returned(name, c)
    ELSE Returned(Ok(Parsed(Some(account_id.val), Some(rp.val), Some(name.val))), c)

\* Lines 958-973: three segments
parse_three(segments, rp) ==
    LET account_id == empty_checked_account(segments[1]) IN
    IF ~account_id.ok THEN Returned(account_id, <<>>)
    ELSE
    LET project_name == empty_checked_project(segments[2]) IN
    IF ~project_name.ok THEN Returned(project_name, <<>>)
    ELSE
    LET c == <<Called(select_project_call(Some(account_id.val), project_name.val),
                      rp)>>
        name == empty_checked_component(segments[3]) IN
    IF ~rp.ok THEN Returned(rp, c)
    ELSE IF ~name.ok THEN Returned(name, c)
    ELSE Returned(Ok(Parsed(Some(account_id.val), Some(rp.val), Some(name.val))), c)

\* Lines 931-987: (account_id, project, component_name) of the requested
\* name, where rp is the response to select_project (read only when the call
\* is made).
parsed_component_name(component_name, rp) ==
    IF ~component_name.some THEN Returned(Ok(Parsed(None, None, None)), <<>>)
    ELSE
    LET segments == split(component_name.val) IN
    CASE Len(segments) = 1 -> parse_one(segments)
      [] Len(segments) = 2 -> parse_two(segments, rp)
      [] Len(segments) = 3 -> parse_three(segments, rp)
      [] OTHER -> Returned(Err(<<"Failed to parse component name", "segments">>),
                           <<>>)

\* Whether select_project is called for the requested name, and with what.
project_to_select(component_name) ==
    LET probe == parsed_component_name(component_name, Err(<<"project", "probe">>)) IN
    IF probe.calls = <<>> THEN None ELSE Some(probe.calls[1].call)

\* The names selected in the application of the current directory.
AppSelections == {<<>>, <<<<"a">>>>, <<<<"a">>, <<"b">>>>}

\* app_handler().opt_select_components_allow_not_found(...) followed by the
\* read of the application context (lines 989-1012): an error of either, no
\* match (false), or a match with the selected names of the application (none
\* when there is no application).
app_select_responses ==
    {Err(<<"app", "select">>), Ok([success |-> FALSE])}
    \cup {Ok([success |-> TRUE, app_ctx |-> Err(<<"app", "context">>)])}
    \cup {Ok([success |-> TRUE, app_ctx |-> Ok(None)])}
    \cup {Ok([success |-> TRUE, app_ctx |-> Ok(Some(s))]) : s \in AppSelections}

app_select_call(component_name) ==
    [op |-> "opt_select_components_allow_not_found",
     component_names |-> IF component_name.some THEN <<component_name.val>>
                         ELSE <<>>]

SelectedComponents(account_id, project, component_names) ==
    [account_id |-> account_id, project |-> project,
     component_names |-> component_names]

\* Lines 902-1033: [ret, calls], where rp and ra are the responses to
\* select_project and to the application's selection (each read only when
\* the call is made).
select_components_by_app_or_name_internal(component_name, allow_no_matches, rp, ra) ==
    LET parsed == parsed_component_name(component_name, rp) IN
    IF ~parsed.ret.ok THEN parsed
    ELSE
    LET p == parsed.ret.val
        c == parsed.calls \o <<Called(app_select_call(p.component_name), ra)>> IN
    IF ~ra.ok THEN Returned(ra, c)
    ELSE IF ra.val.success /\ ~ra.val.app_ctx.ok THEN Returned(ra.val.app_ctx, c)
    ELSE
    LET selected_component_names ==
            IF ra.val.success
            THEN (IF ra.val.app_ctx.val.some THEN ra.val.app_ctx.val.val ELSE <<>>)
            ELSE (IF p.component_name.some THEN <<p.component_name.val>> ELSE <<>>) IN
    IF selected_component_names = <<>> /\ ~p.component_name.some /\ ~allow_no_matches
    THEN Returned(Err(<<"NonSuccessfulExit", "No components were selected">>), c)
    ELSE Returned(Ok(SelectedComponents(p.account_id, p.project,
                                        selected_component_names)), c)

CmdSelect ==
    /\ cmd = Idle
    /\ \E component_name \in {None} \cup {Some(s) : s \in RawNames},
          allow_no_matches \in BOOLEAN :
       LET to_select == project_to_select(component_name) IN
       \E rp \in (IF to_select.some
                  THEN select_project_responses(to_select.val.account_id,
                                                to_select.val.project_name)
                  ELSE {NotCalled}) :
       \E ra \in (IF parsed_component_name(component_name, rp).ret.ok
                  THEN app_select_responses ELSE {NotCalled}) :
       LET out == select_components_by_app_or_name_internal(
                      component_name, allow_no_matches, rp, ra) IN
       /\ cmd' = [op |-> "select", component_name |-> component_name,
                  allow_no_matches |-> allow_no_matches, rp |-> rp, ra |-> ra]
       /\ ret' = out.ret
       /\ calls' = out.calls
    /\ UNCHANGED <<store, next_id, frame>>

NextSelect ==
    \/ CmdSelect
    \/ Return

SpecSelect == InitStore /\ [][NextSelect]_vars

----------------------------------------------------------------------------
\* app_component_dynamic_linking as a command

CmdDynamicLinking ==
    /\ cmd = Idle
    /\ \E deps \in DeclaredDependencies :
       \E stubs \in StubResults(deps) :
       /\ cmd' = [op |-> "app_component_dynamic_linking", deps |-> deps,
                  stubs |-> stubs]
       /\ ret' = app_component_dynamic_linking(deps, stubs)
    /\ UNCHANGED <<store, next_id, calls, frame>>

NextLinking ==
    \/ CmdDynamicLinking
    \/ Return

SpecLinking == InitStore /\ [][NextLinking]_vars

----------------------------------------------------------------------------
\* ComponentCommandHandler::cmd_get

NonSuccessfulExit(message) == Err(<<"NonSuccessfulExit", message>>)

\* must_select_components_by_app_or_name(component_name) as cmd_get sees it:
\* an error, or the selected names (the requested name, or the names the
\* application of the current directory selects), never empty when no name
\* was requested.
must_select_results(component_name) ==
    {Err(<<"select", "failed">>)}
    \cup {Ok(s) : s \in {t \in Selections : component_name.some \/ t # <<>>}}

\* Faulty variant of component_view: a missing version is a service error.
component_view_not_found_is_error(r) ==
    IF r.ok THEN Ok(Some(r.val)) ELSE Err(<<"service", r.err>>)

\* Lines 399-406 and 409-416: the component of the metadata response, None
\* when the store answers not-found.
component_view(r) ==
    map_service_error_not_found_as_opt(r)

\* Lines 363-370: the command starts with the selection of the components.
CmdGet ==
    /\ cmd = Idle
    /\ \E target \in Targets, clients_ok \in BOOLEAN,
          component_name \in {None} \cup {Some(n) : n \in ComponentNames},
          version \in {None} \cup {Some(v) : v \in Versions} :
       cmd' = [op |-> "get", backend |-> target[1], project |-> target[2],
               clients_ok |-> clients_ok, component_name |-> component_name,
               version |-> version]
    /\ frame' = [NewFrame EXCEPT !.pc = "get_select"]
    /\ UNCHANGED <<store, next_id, calls, ret>>

\* Faulty variant of GetSelect: a version is refused as soon as one component
\* is selected.
GetSelect_refuses_single ==
    /\ frame.pc = "get_select"
    /\ \E selected \in must_select_results(cmd.component_name) :
       IF ~selected.ok THEN ReturnErr(selected.err)
       ELSE IF cmd.version.some /\ Len(selected.val) >= 1
       THEN /\ frame' = [frame EXCEPT !.pc = "returned", !.selected = selected.val]
            /\ ret' = NonSuccessfulExit("Version cannot be specified")
       ELSE /\ frame' = [frame EXCEPT !.pc = "get_lookup", !.selected = selected.val,
                                      !.i = 1]
            /\ ret' = ret
    /\ UNCHANGED <<store, next_id, calls, cmd>>

\* Lines 368-387: the selection, and the refusal of a version together with
\* several selected components.
GetSelect ==
    /\ frame.pc = "get_select"
    /\ \E selected \in must_select_results(cmd.component_name) :
       IF ~selected.ok THEN ReturnErr(selected.err)
       ELSE IF cmd.version.some /\ Len(selected.val) > 1
       THEN /\ frame' = [frame EXCEPT !.pc = "returned", !.selected = selected.val]
            /\ ret' = NonSuccessfulExit("Version cannot be specified")
       ELSE /\ frame' = [frame EXCEPT !.pc = "get_lookup", !.selected = selected.val,
                                      !.i = 1]
            /\ ret' = ret
    /\ UNCHANGED <<store, next_id, calls, cmd>>

\* Lines 391-395 and 442-447: component_id_by_name for the next selected name;
\* a name the store does not know is passed over with a warning.
GetLookup ==
    /\ frame.pc = "get_lookup"
    /\ frame.i <= Len(frame.selected)
    /\ LET name == frame.selected[frame.i] IN
       \E r1 \in get_components_responses(name) :
       LET out == component_id_by_name(cmd.clients_ok, cmd.backend, cmd.project,
                                       name, r1) IN
       /\ calls' = calls \o out.calls
       /\ IF ~out.ret.ok THEN ReturnErr(out.ret.err)
          ELSE IF out.ret.val.some
          THEN /\ frame' = [frame EXCEPT !.pc = "get_metadata",
                                         !.component_id = out.ret.val]
               /\ ret' = ret
          ELSE /\ frame' = [frame EXCEPT !.i = @ + 1]
               /\ ret' = ret
    /\ UNCHANGED <<store, next_id, cmd>>

\* Lines 396-441: the metadata of the requested version, or of the latest one.
GetMetadata ==
    /\ frame.pc = "get_metadata"
    /\ LET id == frame.component_id.val
           call == IF cmd.version.some
                   THEN get_component_metadata_call(cmd.backend,
                            [component_id |-> id], cmd.version.val)
                   ELSE initial_call(cmd.backend, cmd.project, ById(id)) IN
       \E r \in (IF cmd.version.some
                 THEN get_component_metadata_responses(id, cmd.version.val)
                 ELSE get_latest_component_metadata_responses(id)) :
       LET result == component_view(r) IN
       /\ Log(call, r)
       /\ IF ~result.ok THEN ReturnErr(result.err)
          ELSE /\ frame' = [frame EXCEPT
                       !.pc = "get_lookup", !.i = @ + 1, !.component_id = None,
                       !.component_views = IF result.val.some
                                           THEN Append(@, result.val.val) ELSE @]
               /\ ret' = ret
    /\ UNCHANGED <<store, next_id, cmd>>

\* Lines 451-469: with no view and a requested name the selection is retried
\* for its error messages; the views are logged.
GetRetrySelection ==
    /\ frame.pc = "get_lookup"
    /\ frame.i > Len(frame.selected)
    /\ IF frame.component_views = <<>> /\ cmd.component_name.some
       THEN \E resp \in {Ok(Unit), Err(<<"app", "select">>)} :
            /\ Log([op |-> "opt_select_components",
                    component_names |-> <<cmd.component_name.val>>], resp)
            /\ IF resp.ok
               THEN frame' = [frame EXCEPT !.pc = "get_report"] /\ ret' = ret
               ELSE ReturnErr(resp.err)
       ELSE /\ frame' = [frame EXCEPT !.pc = "get_report",
                                      !.logged = Some(frame.component_views)]
            /\ ret' = ret
            /\ calls' = calls
    /\ UNCHANGED <<store, next_id, cmd>>

\* Lines 471-524: without a view the command fails, after listing the
\* available versions when one component was selected and a version requested
\* (the listing is shown only if the call succeeds).
GetReport ==
    /\ frame.pc = "get_report"
    /\ IF frame.component_views # <<>>
       THEN /\ frame' = [frame EXCEPT !.pc = "returned"]
            /\ ret' = Ok(Unit)
            /\ calls' = calls
       ELSE IF cmd.version.some /\ Len(frame.selected) = 1
       THEN IF ~cmd.clients_ok
            THEN ReturnErr(<<"clients", "unavailable">>) /\ calls' = calls
            ELSE \E resp \in get_components_responses(frame.selected[1]) :
                 LET versions == map_service_error(resp) IN
                 /\ Log(initial_call(cmd.backend, cmd.project,
                                     ByName(frame.selected[1])), resp)
                 /\ frame' = [frame EXCEPT !.pc = "returned",
                         !.logged = IF versions.ok
                                    THEN Some([k \in 1..Len(versions.val) |->
                                                  versions.val[k].version])
                                    ELSE None]
                 /\ ret' = NonSuccessfulExit("Component version not found")
       ELSE /\ frame' = [frame EXCEPT !.pc = "returned"]
            /\ ret' = NonSuccessfulExit("Component not found")
            /\ calls' = calls
    /\ UNCHANGED <<store, next_id, cmd>>

NextGet ==
    \/ \E n \in ComponentNames : StoreCreate(n)
    \/ \E i \in ComponentIds : StoreUpdate(i)
    \/ CmdGet
    \/ GetSelect
    \/ GetLookup
    \/ GetMetadata
    \/ GetRetrySelection
    \/ GetReport
    \/ Return

\* cmd_get against every store state.
SpecGet == InitStore /\ [][NextGet]_vars

----------------------------------------------------------------------------
\* ComponentCommandHandler::cmd_update_workers, cmd_redeploy_workers and
\* components_for_update_or_redeploy

\* opt_select_components_by_app_or_name(component_name): an error, or the
\* selected names, possibly none.
opt_select_results == {Err(<<"select", "failed">>)} \cup {Ok(s) : s \in Selections}

\* Lines 527-551: both commands start with components_for_update_or_redeploy.
CmdUpdateOrRedeployWorkers ==
    /\ cmd = Idle
    /\ \E target \in Targets, clients_ok \in BOOLEAN,
          op \in {"update_workers", "redeploy_workers"},
          update_mode \in WorkerUpdateModes :
       cmd' = [op |-> op, backend |-> target[1], project |-> target[2],
               clients_ok |-> clients_ok,
               update_mode |-> IF op = "update_workers" THEN Some(update_mode)
                               ELSE None]
    /\ frame' = [NewFrame EXCEPT !.pc = "for_update_select"]
    /\ UNCHANGED <<store, next_id, calls, ret>>

\* Lines 797-801: the selection of the component names.
ForUpdateSelect ==
    /\ frame.pc = "for_update_select"
    /\ \E selected \in opt_select_results :
       IF ~selected.ok THEN ReturnErr(selected.err)
       ELSE /\ frame' = [frame EXCEPT !.pc = "for_update_lookup",
                                      !.selected = selected.val, !.i = 1]
            /\ ret' = ret
    /\ UNCHANGED <<store, next_id, calls, cmd>>

\* Faulty variant of ForUpdateLookup: a component that is not deployed fails
\* the command.
ForUpdateLookup_missing_is_error ==
    /\ frame.pc = "for_update_lookup"
    /\ frame.i <= Len(frame.selected)
    /\ LET name == frame.selected[frame.i] IN
       \E r1 \in get_components_responses(name) :
       LET out == component(cmd.clients_ok, cmd.backend, cmd.project, ByName(name),
                            None, r1, NotCalled, NotCalled) IN
       /\ calls' = calls \o out.calls
       /\ IF ~out.ret.ok THEN ReturnErr(out.ret.err)
          ELSE IF out.ret.val.some
          THEN /\ frame' = [frame EXCEPT !.i = @ + 1,
                                         !.components = Append(@, out.ret.val.val)]
               /\ ret' = ret
          ELSE ReturnErr(<<"component", "not deployed">>)
    /\ UNCHANGED <<store, next_id, cmd>>

\* Lines 802-820: one iteration of the loop: component(project, name, None)
\* .await?, the component pushed when there is one, a warning otherwise.
ForUpdateLookup ==
    /\ frame.pc = "for_update_lookup"
    /\ frame.i <= Len(frame.selected)
    /\ LET name == frame.selected[frame.i] IN
       \E r1 \in get_components_responses(name) :
       LET out == component(cmd.clients_ok, cmd.backend, cmd.project, ByName(name),
                            None, r1, NotCalled, NotCalled) IN
       /\ calls' = calls \o out.calls
       /\ IF ~out.ret.ok THEN ReturnErr(out.ret.err)
          ELSE IF out.ret.val.some
          THEN /\ frame' = [frame EXCEPT !.i = @ + 1,
                                         !.components = Append(@, out.ret.val.val)]
               /\ ret' = ret
          ELSE /\ frame' = [frame EXCEPT !.i = @ + 1,
                                         !.warnings = Append(@, name)]
               /\ ret' = ret
    /\ UNCHANGED <<store, next_id, cmd>>

\* Lines 822, 535-536 and 547: Ok(components), given to the worker batch of
\* the command.
ForUpdateDone ==
    /\ frame.pc = "for_update_lookup"
    /\ frame.i > Len(frame.selected)
    /\ IF cmd.op = "update_workers"
       THEN EnterUpdateWorkers(frame, frame.components, cmd.update_mode.val)
       ELSE EnterRedeployWorkers(frame, frame.components)
    /\ UNCHANGED <<store, next_id, calls, cmd>>

NextUpdateOrRedeploy ==
    \/ \E n \in ComponentNames : StoreCreate(n)
    \/ \E i \in ComponentIds : StoreUpdate(i)
    \/ CmdUpdateOrRedeployWorkers
    \/ ForUpdateSelect
    \/ ForUpdateLookup
    \/ ForUpdateDone
    \/ UpdateWorkersStep
    \/ UpdateWorkersDone
    \/ RedeployWorkersStep
    \/ RedeployWorkersDone
    \/ Return

\* cmd_update_workers and cmd_redeploy_workers against every store state.
SpecUpdateOrRedeploy == InitStore /\ [][NextUpdateOrRedeploy]_vars

----------------------------------------------------------------------------
\* ComponentCommandHandler::component_by_name_with_auto_deploy

ComponentNameMatchKinds == {"AppCurrentDir", "App", "Unknown"}

\* app_context_lock().opt()? followed by log_dynamic_help(..)? (lines
\* 1062-1070): the application context cannot be read, there is no
\* application, or the help is logged or fails to be.
dynamic_help_responses ==
    {Err(<<"app", "context">>), Ok(None), Ok(Some(Ok(Unit))),
     Ok(Some(Err(<<"app", "help">>)))}

\* interactive_handler().confirm_auto_deploy_component(component_name)
confirm_auto_deploy_component_responses ==
    {Ok(TRUE), Ok(FALSE), Err(<<"interactive", "failed">>)}

AutoDeployReturns(r) ==
    /\ frame' = [NewFrame EXCEPT !.pc = "auto_deploy_returned"]
    /\ ret' = r

\* Lines 1042-1047: the lookup with the version selection of the caller; its
\* error and the component it found are returned.
CmdAutoDeploy ==
    /\ cmd = Idle
    /\ \E target \in Targets, clients_ok \in BOOLEAN, name \in ComponentNames,
          kind \in ComponentNameMatchKinds, vsel \in ComponentVersionSelections :
       \E r1 \in get_components_responses(name) :
       LET sel == ByName(name)
           found == initial_lookup(target[1], sel, r1)
           hit == clients_ok /\ found.ok /\ found.val.some /\ vsel.some
           byWorker == hit /\ vsel.val.kind = "ByWorkerName" IN
       \E r2 \in (IF byWorker
                  THEN worker_metadata_responses(found.val.val.component_id)
                  ELSE {NotCalled}) :
       LET version == IF hit THEN selected_version(vsel.val, r2) ELSE None IN
       \E r3 \in (IF version.some
                  THEN get_component_metadata_responses(
                           found.val.val.component_id, version.val)
                  ELSE {NotCalled}) :
       LET out == component(clients_ok, target[1], target[2], sel, vsel, r1, r2, r3) IN
       /\ cmd' = [op |-> "component_by_name_with_auto_deploy",
                  backend |-> target[1], project |-> target[2],
                  clients_ok |-> clients_ok,
                  component_match_kind |-> kind, component_name |-> name,
                  component_version_selection |-> vsel,
                  update_or_redeploy |-> [update_workers |-> None,
                                          redeploy_workers |-> FALSE]]
       /\ calls' = out.calls
       /\ IF ~out.ret.ok THEN AutoDeployReturns(out.ret)
          ELSE IF out.ret.val.some THEN AutoDeployReturns(Ok(out.ret.val.val))
          ELSE /\ frame' = [NewFrame EXCEPT !.pc = "should_deploy"]
               /\ ret' = ret
    /\ UNCHANGED <<store, next_id>>

\* Lines 1048-1073: a name that is not part of the application is not
\* deployed: the help is logged and the command bails.
AutoDeployRefuse ==
    /\ frame.pc = "should_deploy"
    /\ cmd.component_match_kind = "Unknown"
    /\ \E help \in dynamic_help_responses :
       /\ Log([op |-> "log_dynamic_help"], help)
       /\ IF ~help.ok THEN AutoDeployReturns(help)
          ELSE IF help.val.some /\ ~help.val.val.ok
               THEN AutoDeployReturns(help.val.val)
               ELSE AutoDeployReturns(NonSuccessfulExit("not part of the application"))
    /\ UNCHANGED <<store, next_id, cmd>>

\* Faulty variant of AutoDeployConfirm: the answer of the user is not looked
\* at.
AutoDeployConfirm_deploys_when_declined ==
    /\ frame.pc = "should_deploy"
    /\ cmd.component_match_kind \in {"AppCurrentDir", "App"}
    /\ \E answer \in confirm_auto_deploy_component_responses :
       /\ Log([op |-> "confirm_auto_deploy_component",
               name |-> cmd.component_name], answer)
       /\ IF ~answer.ok THEN AutoDeployReturns(answer)
          ELSE /\ frame' = [NewFrame EXCEPT !.pc = "build"]
               /\ ret' = ret
    /\ UNCHANGED <<store, next_id, cmd>>

\* Lines 1079-1092 and 1109-1111: the user is asked; deploy(project,
\* vec![component_name], None, CurrentDir, WorkerUpdateOrRedeployArgs::
\* default()) is entered when they confirm, the command bails when they do
\* not.
AutoDeployConfirm ==
    /\ frame.pc = "should_deploy"
    /\ cmd.component_match_kind \in {"AppCurrentDir", "App"}
    /\ \E answer \in confirm_auto_deploy_component_responses :
       /\ Log([op |-> "confirm_auto_deploy_component",
               name |-> cmd.component_name], answer)
       /\ IF ~answer.ok THEN AutoDeployReturns(answer)
          ELSE IF answer.val
               THEN /\ frame' = [NewFrame EXCEPT !.pc = "build"]
                    /\ ret' = ret
               ELSE AutoDeployReturns(NonSuccessfulExit("auto deploy declined"))
    /\ UNCHANGED <<store, next_id, cmd>>

\* Faulty variant of AutoDeployResolve: the component is resolved again with
\* the version selection of the caller.
AutoDeployResolve_keeps_version_selection ==
    /\ cmd.op = "component_by_name_with_auto_deploy"
    /\ frame.pc = "returned"
    /\ IF ~ret.ok
       THEN /\ frame' = [frame EXCEPT !.pc = "auto_deploy_returned"]
            /\ UNCHANGED <<calls, ret>>
       ELSE \E r1 \in get_components_responses(cmd.component_name) :
            LET vsel == cmd.component_version_selection
                found == initial_lookup(cmd.backend, ByName(cmd.component_name), r1)
                hit == cmd.clients_ok /\ found.ok /\ found.val.some /\ vsel.some
                byWorker == hit /\ vsel.val.kind = "ByWorkerName" IN
            \E r2 \in (IF byWorker
                       THEN worker_metadata_responses(found.val.val.component_id)
                       ELSE {NotCalled}) :
            LET version == IF hit THEN selected_version(vsel.val, r2) ELSE None IN
            \E r3 \in (IF version.some
                       THEN get_component_metadata_responses(
                                found.val.val.component_id, version.val)
                       ELSE {NotCalled}) :
            LET out == component(cmd.clients_ok, cmd.backend, cmd.project,
                                 ByName(cmd.component_name), vsel, r1, r2, r3) IN
            /\ calls' = calls \o out.calls
            /\ frame' = [frame EXCEPT !.pc = "auto_deploy_returned"]
            /\ ret' = IF ~out.ret.ok THEN out.ret
                      ELSE IF out.ret.val.some THEN Ok(out.ret.val.val)
                      ELSE Err(<<"anyhow", "not found after deployment">>)
    /\ UNCHANGED <<store, next_id, cmd>>

\* Lines 1092-1108: `.await?` on the deploy, then component(project,
\* component_name, None).await?.ok_or_else(..).
AutoDeployResolve ==
    /\ cmd.op = "component_by_name_with_auto_deploy"
    /\ frame.pc = "returned"
    /\ IF ~ret.ok
       THEN /\ frame' = [frame EXCEPT !.pc = "auto_deploy_returned"]
            /\ UNCHANGED <<calls, ret>>
       ELSE \E r1 \in get_components_responses(cmd.component_name) :
            LET out == component(cmd.clients_ok, cmd.backend, cmd.project,
                                 ByName(cmd.component_name), None,
                                 r1, NotCalled, NotCalled) IN
            /\ calls' = calls \o out.calls
            /\ frame' = [frame EXCEPT !.pc = "auto_deploy_returned"]
            /\ ret' = IF ~out.ret.ok THEN out.ret
                      ELSE IF out.ret.val.some THEN Ok(out.ret.val.val)
                      ELSE Err(<<"anyhow", "not found after deployment">>)
    /\ UNCHANGED <<store, next_id, cmd>>

\* component_by_name_with_auto_deploy has returned to its caller.
AutoDeployReturn ==
    /\ frame.pc = "auto_deploy_returned"
    /\ Return

NextAutoDeploy ==
    \/ \E n \in ComponentNames : StoreCreate(n)
    \/ \E i \in ComponentIds : StoreUpdate(i)
    \/ CmdAutoDeploy
    \/ AutoDeployRefuse
    \/ AutoDeployConfirm
    \/ DeployBuild
    \/ DeploySelect
    \/ DeployLock
    \/ DeployNext
    \/ DeployComponentLookup
    \/ DeployComponentProperties
    \/ DeployComponentArchive
    \/ DeployComponentOpenArchive
    \/ DeployComponentOpenWasm
    \/ DeployComponentMutate
    \/ DeployComponentReturn
    \/ DeployLifecycle
    \/ AutoDeployResolve
    \/ AutoDeployReturn

\* component_by_name_with_auto_deploy against every store state; the store is
\* modified only by this client while the command runs.
SpecAutoDeploy == InitStore /\ [][NextAutoDeploy]_vars

----------------------------------------------------------------------------
\* The integration-test harness: Context::start (tests/context.rs)

\* The environment variables EnvConfig::from_env reads: unset (None) or set.
EnvVars ==
    [CI : {None, Some("true")},
     QUIET : {None, Some("1")},
     REDIS_KEY_PREFIX : {None, Some("test:")},
     GOLEM_TEST_TEMPLATES : {None},
     GOLEM_DOCKER_SERVICES : {None, Some("1")},
     GOLEM_TEST_DB : {None, Some("sqlite"), Some("SQLite"), Some("postgres")}]

unwrap_or(var, default) == IF var.some THEN var.val ELSE default

to_lowercase(s) == IF s = "SQLite" THEN "sqlite" ELSE s

\* DbType::from_env
DbType_from_env(env) ==
    LET db_type_str == to_lowercase(unwrap_or(env.GOLEM_TEST_DB, "")) IN
    IF db_type_str = "sqlite" THEN "Sqlite" ELSE "Postgres"

\* EnvConfig::from_env
EnvConfig_from_env(env) ==
    [verbose |-> ~env.CI.some,
     on_ci |-> env.CI.some,
     quiet |-> env.QUIET.some,
     redis_key_prefix |-> unwrap_or(env.REDIS_KEY_PREFIX, ""),
     wasm_root |-> unwrap_or(env.GOLEM_TEST_TEMPLATES, "../test-templates"),
     local_golem |-> ~env.GOLEM_DOCKER_SERVICES.some,
     db_type |-> DbType_from_env(env)]

\* The ports a started service can be reached at.
InfoPorts == {1, 2}

\* X::start(docker, &env_config, ..): the service, of which the model keeps
\* the info, or Failed.
start_responses(service) ==
    {Ok([service |-> service, port |-> p]) : p \in InfoPorts}
    \cup {Err(<<"Failed", service>>)}

\* The locals of Context::start.
ContextFrame ==
    [pc |-> "db", db |-> None, redis |-> None, shard_manager |-> None,
     golem_template_service |-> None, golem_worker_service |-> None,
     worker_executors |-> None]

\* Lines 81-83
CmdContextStart ==
    /\ cmd = Idle
    /\ \E env \in EnvVars :
       cmd' = [op |-> "Context::start", env_config |-> EnvConfig_from_env(env)]
    /\ frame' = ContextFrame
    /\ UNCHANGED <<store, next_id, calls, ret>>

\* Faulty variant of StartDb: a failure of the start does not end the
\* sequence.
StartDb_ignores_failure ==
    /\ frame.pc = "db"
    /\ \E resp \in start_responses("db") :
       /\ Log([op |-> "Db::start", env_config |-> cmd.env_config], resp)
       /\ frame' = [frame EXCEPT !.pc = "redis",
                                 !.db = IF resp.ok THEN Some(resp.val)
                                        ELSE Some([service |-> "db", port |-> 0])]
       /\ ret' = ret
    /\ UNCHANGED <<store, next_id, cmd>>

\* Line 85: Db::start(docker, &env_config)?
StartDb ==
    /\ frame.pc = "db"
    /\ \E resp \in start_responses("db") :
       /\ Log([op |-> "Db::start", env_config |-> cmd.env_config], resp)
       /\ IF resp.ok
          THEN /\ frame' = [frame EXCEPT !.pc = "redis", !.db = Some(resp.val)]
               /\ ret' = ret
          ELSE ReturnErr(resp.err)
    /\ UNCHANGED <<store, next_id, cmd>>

\* Line 86: Redis::make(docker, &env_config)?
StartRedis ==
    /\ frame.pc = "redis"
    /\ \E resp \in start_responses("redis") :
       /\ Log([op |-> "Redis::make", env_config |-> cmd.env_config], resp)
       /\ IF resp.ok
          THEN /\ frame' = [frame EXCEPT !.pc = "shard_manager",
                                         !.redis = Some(resp.val)]
               /\ ret' = ret
          ELSE ReturnErr(resp.err)
    /\ UNCHANGED <<store, next_id, cmd>>

\* Line 87: ShardManager::start(docker, &env_config, &redis.info())?
StartShardManager ==
    /\ frame.pc = "shard_manager"
    /\ \E resp \in start_responses("shard_manager") :
       /\ Log([op |-> "ShardManager::start", env_config |-> cmd.env_config,
               redis |-> frame.redis.val], resp)
       /\ IF resp.ok
          THEN /\ frame' = [frame EXCEPT !.pc = "golem_template_service",
                                         !.shard_manager = Some(resp.val)]
               /\ ret' = ret
          ELSE ReturnErr(resp.err)
    /\ UNCHANGED <<store, next_id, cmd>>

\* Lines 89-90: GolemTemplateService::start(docker, &env_config, &db.info())?
StartGolemTemplateService ==
    /\ frame.pc = "golem_template_service"
    /\ \E resp \in start_responses("golem_template_service") :
       /\ Log([op |-> "GolemTemplateService::start", env_config |-> cmd.env_config,
               db |-> frame.db.val], resp)
       /\ IF resp.ok
          THEN /\ frame' = [frame EXCEPT !.pc = "golem_worker_service",
                                         !.golem_template_service = Some(resp.val)]
               /\ ret' = ret
          ELSE ReturnErr(resp.err)
    /\ UNCHANGED <<store, next_id, cmd>>

\* Lines 92-93: GolemWorkerService::start(docker, &env_config,
\* &shard_manager.info(), &db.info(), &redis.info(),
\* &golem_template_service.info())?
StartGolemWorkerService ==
    /\ frame.pc = "golem_worker_service"
    /\ \E resp \in start_responses("golem_worker_service") :
       /\ Log([op |-> "GolemWorkerService::start", env_config |-> cmd.env_config,
               shard_manager |-> frame.shard_manager.val,
               db |-> frame.db.val,
               redis |-> frame.redis.val,
               golem_template_service |-> frame.golem_template_service.val], resp)
       /\ IF resp.ok
          THEN /\ frame' = [frame EXCEPT !.pc = "worker_executors",
                                         !.golem_worker_service = Some(resp.val)]
               /\ ret' = ret
          ELSE ReturnErr(resp.err)
    /\ UNCHANGED <<store, next_id, cmd>>

\* Lines 95-102: WorkerExecutors::start(docker, &env_config, &redis.info(),
\* &golem_worker_service.info(), &golem_template_service.info(),
\* &shard_manager.info())?
StartWorkerExecutors ==
    /\ frame.pc = "worker_executors"
    /\ \E resp \in start_responses("worker_executors") :
       /\ Log([op |-> "WorkerExecutors::start", env_config |-> cmd.env_config,
               redis |-> frame.redis.val,
               golem_worker_service |-> frame.golem_worker_service.val,
               golem_template_service |-> frame.golem_template_service.val,
               shard_manager |-> frame.shard_manager.val], resp)
       /\ IF resp.ok
          THEN /\ frame' = [frame EXCEPT !.pc = "context",
                                         !.worker_executors = Some(resp.val)]
               /\ ret' = ret
          ELSE ReturnErr(resp.err)
    /\ UNCHANGED <<store, next_id, cmd>>

\* Lines 104-112: Ok(Context { .. })
ContextStarted ==
    /\ frame.pc = "context"
    /\ ret' = Ok([env |-> cmd.env_config,
                  db |-> frame.db.val,
                  redis |-> frame.redis.val,
                  shard_manager |-> frame.shard_manager.val,
                  golem_template_service |-> frame.golem_template_service.val,
                  golem_worker_service |-> frame.golem_worker_service.val,
                  worker_executors |-> frame.worker_executors.val])
    /\ frame' = [frame EXCEPT !.pc = "returned"]
    /\ UNCHANGED <<store, next_id, calls, cmd>>

NextContext ==
    \/ CmdContextStart
    \/ StartDb
    \/ StartRedis
    \/ StartShardManager
    \/ StartGolemTemplateService
    \/ StartGolemWorkerService
    \/ StartWorkerExecutors
    \/ ContextStarted
    \/ Return

\* Context::start under every environment EnvConfig::from_env can read.
SpecContext == InitStore /\ [][NextContext]_vars

----------------------------------------------------------------------------
\* Properties of component(), stated over the command's inputs (cmd), the
\* remote responses it was given, the calls it issued and its return value.

ComponentReturned == cmd.op = "component" /\ ret # NoRet

\* The records of the store the selector designates.
SelectedRecords ==
    IF cmd.sel.kind = "Name"
    THEN RecordsByName(cmd.sel.name)
    ELSE RecordsById(cmd.sel.id)

\* The initial remote call was answered with a component, and which one.
InitialFound ==
    /\ ComponentReturned
    /\ cmd.clients_ok
    /\ cmd.r1.ok
    /\ cmd.sel.kind = "Name" => cmd.r1.val # <<>>

FoundComponent ==
    IF cmd.sel.kind = "Name" THEN Last(cmd.r1.val) ELSE cmd.r1.val

\* The initial remote call reported absence: an empty listing, or not-found by id.
InitialAbsent ==
    /\ ComponentReturned
    /\ cmd.clients_ok
    /\ \/ cmd.sel.kind = "Name" /\ cmd.r1 = Ok(<<>>)
       \/ cmd.sel.kind = "Id" /\ cmd.r1 = Err("not_found")

IsAscending(s) == \A i \in 1..(Len(s) - 1) : s[i].version < s[i + 1].version

HighestVersion(S) == MaxOf({c.version : c \in S})

CallOps == {calls[i].call.op : i \in 1..Len(calls)}

ExplicitVersionMissing ==
    /\ ComponentReturned
    /\ cmd.vsel.some
    /\ cmd.vsel.val.kind = "ByExplicitVersion"
    /\ \A c \in SelectedRecords : c.version # cmd.vsel.val.version

\* C5 (as stated): component() with ByExplicitVersion(v), where version v of
\* the selected component does not exist, returns an error, for every selector
\* and every store state.
C5_ExplicitMissingAlwaysError ==
    ExplicitVersionMissing => ~ret.ok

\* C5 (amended): component() with ByExplicitVersion(v), when the selected
\* component exists in the store but has no version v, returns an error and
\* never None; when the selected component is absent altogether and the
\* initial lookup says so, the result is Ok(None) and not an error.
C5_ExplicitMissingOfExistingIsError ==
    /\ (ExplicitVersionMissing /\ SelectedRecords # {}) => ~ret.ok
    /\ (ExplicitVersionMissing /\ InitialAbsent) => ret = Ok(None)

C5_Witness ==
    /\ ExplicitVersionMissing
    /\ SelectedRecords # {}
    /\ cmd.r3 = Err("not_found")
    /\ ret = Err(<<"service", "not_found">>)

WorkerLookupFailed ==
    /\ InitialFound
    /\ cmd.vsel.some
    /\ cmd.vsel.val.kind = "ByWorkerName"
    /\ cmd.r2 # NotCalled
    /\ ~cmd.r2.ok

\* C6: component() with ByWorkerName(w), when the initial lookup found a
\* component and worker_metadata fails for any reason, returns Ok with the
\* component found by the initial lookup (the highest version when found by
\* id or from an ascending listing), issues no get_component_metadata call
\* and no error.
C6_WorkerFailureFallsBack ==
    WorkerLookupFailed =>
        /\ ret = Ok(Some(FoundComponent))
        /\ "get_component_metadata" \notin CallOps
        /\ "worker_metadata" \in CallOps
        /\ (cmd.sel.kind = "Id" \/ IsAscending(cmd.r1.val)) =>
               ret.val.val.version = HighestVersion(SelectedRecords)

C6_Witness ==
    /\ WorkerLookupFailed
    /\ Cardinality(SelectedRecords) > 1
    /\ ret = Ok(Some(FoundComponent))

\* C7: component() by name, when get_components succeeds with an empty
\* result, returns Ok(None), for both backends and every version selection.
C7_EmptyListingIsNone ==
    (ComponentReturned /\ cmd.clients_ok /\ cmd.sel.kind = "Name"
        /\ cmd.r1 = Ok(<<>>)) => ret = Ok(None)

C7_Witness ==
    /\ ComponentReturned
    /\ cmd.sel.kind = "Name"
    /\ cmd.r1 = Ok(<<>>)
    /\ cmd.backend = "Cloud"
    /\ cmd.vsel.some
    /\ ret = Ok(None)

ListedSeveral ==
    /\ ComponentReturned
    /\ cmd.clients_ok
    /\ cmd.sel.kind = "Name"
    /\ ~cmd.vsel.some
    /\ cmd.r1.ok
    /\ Len(cmd.r1.val) > 1

\* C8 (as stated): when get_components returns several records, component()
\* with no version selection returns the record with the highest version
\* among them, for every order in which the store returns them.
C8_HighestForEveryOrder ==
    ListedSeveral =>
        /\ ret.ok /\ ret.val.some
        /\ ret.val.val.version = HighestVersion(SelectedRecords)

\* C8 (amended): it returns the last record of the listing; that is the
\* record with the highest version whenever the store lists the records in
\* ascending version order.
C8_LastOfListing ==
    ListedSeveral =>
        /\ ret = Ok(Some(Last(cmd.r1.val)))
        /\ IsAscending(cmd.r1.val) =>
               ret.val.val.version = HighestVersion(SelectedRecords)

C8_Witness ==
    /\ ListedSeveral
    /\ Len(cmd.r1.val) > 2
    /\ IsAscending(cmd.r1.val)
    /\ ret.val.val.version = HighestVersion(SelectedRecords)

ByIdReturned ==
    ComponentReturned /\ cmd.clients_ok /\ cmd.sel.kind = "Id"

\* C9: component() by id turns a not-found response of get-latest into
\* Ok(None), propagates every other failure of that call as an error, and
\* returns Ok(None) for no failure other than not-found.
C9_ByIdNotFoundIsNone ==
    ByIdReturned =>
        /\ cmd.r1 = Err("not_found") => ret = Ok(None)
        /\ (~cmd.r1.ok /\ cmd.r1.err # "not_found") =>
               ret = Err(<<"service", cmd.r1.err>>)
        /\ ret = Ok(None) => cmd.r1 = Err("not_found")

C9_Witness ==
    /\ ByIdReturned
    /\ cmd.r1 = Err("not_found")
    /\ cmd.vsel.some
    /\ ret = Ok(None)

\* A remote call of the resolution failed, other than by reporting absence
\* in the initial lookup.
InitialCallFailed ==
    /\ ComponentReturned /\ cmd.clients_ok
    /\ ~cmd.r1.ok
    /\ ~(cmd.sel.kind = "Id" /\ cmd.r1.err = "not_found")

WorkerCallFailed ==
    ComponentReturned /\ cmd.r2 # NotCalled /\ ~cmd.r2.ok

VersionCallFailed ==
    ComponentReturned /\ cmd.r3 # NotCalled /\ ~cmd.r3.ok

NoneOnlyForAbsence ==
    /\ (ComponentReturned /\ ret = Ok(None)) => InitialAbsent
    /\ InitialFound => ret # Ok(None)

\* C10 (as stated): component() returns None only when the initial lookup
\* reported absence, never once a component was found, and every other
\* failing remote call of the resolution makes it return an error.
C10_EveryFailurePropagates ==
    /\ NoneOnlyForAbsence
    /\ (InitialCallFailed \/ WorkerCallFailed \/ VersionCallFailed) => ~ret.ok

\* C10 (amended): as stated, except for the worker_metadata call, whose
\* failure is discarded: the failing initial call and the failing
\* get_component_metadata call make component() return their error, while a
\* failing worker_metadata call makes it return the found component.
C10_FailuresPropagateExceptWorker ==
    /\ NoneOnlyForAbsence
    /\ InitialCallFailed => ret = Err(<<"service", cmd.r1.err>>)
    /\ VersionCallFailed => ret = Err(<<"service", cmd.r3.err>>)
    /\ WorkerCallFailed => ret = Ok(Some(FoundComponent))

C10_Witness ==
    /\ VersionCallFailed
    /\ cmd.r3 = Err("other")
    /\ cmd.r2 # NotCalled
    /\ ret = Err(<<"service", "other">>)

----------------------------------------------------------------------------
\* Properties of the worker lifecycle batch

CallsOf(op) == SelectSeq(calls, LAMBDA e : e.call.op = op)

UpdateCalls == CallsOf("update_component_workers")
RedeployCalls == CallsOf("redeploy_component_workers")

\* The outcomes of the first n answered worker updates that succeeded, in order.
RECURSIVE OutcomesOf(_, _)
OutcomesOf(cs, n) ==
    IF n = 0 THEN <<>>
    ELSE OutcomesOf(cs, n - 1) \o (IF cs[n].resp.ok THEN cs[n].resp.val ELSE <<>>)

UpdateBatchReturned ==
    /\ cmd.op = "update_workers_by_components"
    /\ frame.pc = "returned"

\* C3: update_workers_by_components is never short-circuited by the failure
\* of one component: the update is attempted for every component of the
\* batch, also after one that failed, the aggregate holds the outcomes of all
\* components that succeeded, and no error is returned on their behalf.
C3_UpdateNeverShortCircuits ==
    UpdateBatchReturned =>
        /\ Len(UpdateCalls) = Len(frame.components)
        /\ \A j \in 1..Len(UpdateCalls) :
               UpdateCalls[j].call.name = frame.components[j].component_name
        /\ (\E j \in 1..Len(UpdateCalls) : UpdateCalls[j].resp.ok) =>
               /\ frame.logged = Some(OutcomesOf(UpdateCalls, Len(UpdateCalls)))
               /\ ret.ok

RedeployBatchRunning ==
    /\ cmd.op = "redeploy_workers_by_components"
    /\ frame.pc \in {"redeploy_workers", "returned"}

\* C4: redeploy_workers_by_components stops at the first component whose
\* redeploy fails: it returns that error, redeploy_component_workers is never
\* invoked for a component after the failing one, and every component before
\* it was redeployed exactly once, in batch order.
C4_RedeployStopsAtFirstFailure ==
    RedeployBatchRunning =>
        /\ Len(RedeployCalls) <= Len(frame.components)
        /\ \A j \in 1..Len(RedeployCalls) :
               /\ RedeployCalls[j].call =
                      redeploy_component_workers_call(frame.components[j])
               /\ ~RedeployCalls[j].resp.ok =>
                      /\ j = Len(RedeployCalls)
                      /\ frame.pc = "returned"
                      /\ ret = Err(RedeployCalls[j].resp.err)
        /\ (frame.pc = "returned" /\ ret.ok) =>
               Len(RedeployCalls) = Len(frame.components)
        /\ frame.pc = "redeploy_workers" => Len(RedeployCalls) = frame.w - 1

C4_Witness ==
    /\ RedeployBatchRunning
    /\ frame.pc = "returned"
    /\ Len(frame.components) = 3
    /\ Len(RedeployCalls) = 2
    /\ RedeployCalls[1].resp.ok
    /\ ~ret.ok

----------------------------------------------------------------------------
\* Properties of deploy and deploy_component

MutatingOps == {"create_component", "update_component"}
MutatingCalls == SelectSeq(calls, LAMBDA e : e.call.op \in MutatingOps)
LookupCalls == CallsOf("get_components")

InDeploy == cmd.op = "deploy"

\* The mutating call m is the one the by-name lookup l asks for: update of
\* the id the lookup returned, or create of the looked-up name when the
\* lookup found nothing.
Routed(l, m) ==
    /\ l.resp.ok
    /\ IF l.resp.val # <<>>
       THEN /\ m.call.op = "update_component"
            /\ m.call.id = Last(l.resp.val).component_id
       ELSE /\ m.call.op = "create_component"
            /\ m.call.name = l.call.name

\* C1: deploy_component issues one mutating store call per component, and
\* never a second one: update_component with exactly the id the by-name
\* lookup returned when the lookup found the component, create_component with
\* the component's name when it found nothing; the call is preceded by that
\* component's lookup, and a component whose deploy_component returned Ok has
\* had exactly one.
C1_OneRoutedMutatingCall ==
    InDeploy =>
        LET done == Len(frame.components)
            n == Len(MutatingCalls) IN
        /\ n \in {done, done + 1}
        /\ n <= Len(LookupCalls)
        /\ \A j \in 1..n : Routed(LookupCalls[j], MutatingCalls[j])
        /\ \A j \in 1..done : MutatingCalls[j].resp = Ok(frame.components[j])
        /\ n = done + 1 =>
               /\ frame.pc \in {"deployed", "returned"}
               /\ LookupCalls[n].call.name = frame.selected[frame.i]
        /\ frame.pc = "deployed" => n = done + 1

C1_Witness ==
    /\ InDeploy
    /\ frame.pc = "deployed"
    /\ Len(MutatingCalls) = 2
    /\ MutatingCalls[1].call.op = "update_component"
    /\ MutatingCalls[2].call.op = "create_component"
    /\ Routed(LookupCalls[2], MutatingCalls[2])

OneIdPerName ==
    \A c \in store, d \in store :
        c.component_name = d.component_name <=> c.component_id = d.component_id

\* A step in which deploy_component's create or update call succeeds.
DeployedStep == frame.pc = "mutate" /\ frame'.pc = "deployed"

\* C2: against a store no other client modifies, the first successful deploy
\* of a name creates the component at version 0, every later one returns the
\* same component_id with the version increased by exactly one, and the store
\* never binds a name to more than one component_id.
C2_StableIdAcrossDeploys ==
    /\ []OneIdPerName
    /\ [][DeployedStep =>
            LET name == frame.selected[frame.i]
                c == frame'.component.val IN
            /\ c.component_name = name
            /\ c \notin store
            /\ store' = store \cup {c}
            /\ IF RecordsByName(name) = {}
               THEN c.version = 0 /\ RecordsById(c.component_id) = {}
               ELSE /\ \A p \in RecordsByName(name) : p.component_id = c.component_id
                    /\ c.version = HighestVersion(RecordsByName(name)) + 1]_vars

C2_Witness ==
    /\ InDeploy
    /\ frame.pc = "deployed"
    /\ frame.component.val.version = 2
    /\ Cardinality(RecordsById(frame.component.val.component_id)) = 3
    /\ Cardinality({c.component_id : c \in store}) = 2

----------------------------------------------------------------------------
\* Properties of select_components_by_app_or_name_internal, stated over the
\* requested name (cmd.component_name), the calls issued and the return value.
\* The segments of the raw name are described here by the positions of its
\* separators, independently of split.

SelectReturned == cmd.op = "select" /\ ret # NoRet

Requested == SelectReturned /\ cmd.component_name.some

Raw == cmd.component_name.val

SlashPositions(s) == {i \in 1..Len(s) : s[i] = "/"}

SegmentCount(s) == Cardinality(SlashPositions(s)) + 1

\* Position of the k-th separator of s (0 before the first segment, Len(s) + 1
\* after the last one).
Separator(s, k) ==
    IF k = 0 THEN 0
    ELSE IF k > Cardinality(SlashPositions(s)) THEN Len(s) + 1
    ELSE CHOOSE i \in SlashPositions(s) :
             Cardinality({j \in SlashPositions(s) : j < i}) = k - 1

Segment(s, k) == SubSeq(s, Separator(s, k - 1) + 1, Separator(s, k) - 1)

AllSegmentsPresent(s) == \A k \in 1..SegmentCount(s) : Segment(s, k) # <<>>

SelectProjectCalls ==
    {i \in 1..Len(calls) : calls[i].call.op = "select_project"}

AppSelectCalls ==
    {i \in 1..Len(calls) :
        calls[i].call.op = "opt_select_components_allow_not_found"}

\* The identifier was accepted: the handler went on to the selection in the
\* application, giving it the parsed component name.
ParsedOk == Requested /\ AppSelectCalls # {}

ParseError == Err(<<"Failed to parse component name", "segments">>)

\* The account and the project the segments of the raw name stand for.
ExpectedAccount(s) ==
    IF SegmentCount(s) = 3 THEN Some(Segment(s, 1)) ELSE None

ExpectedProjectName(s) ==
    IF SegmentCount(s) = 1 THEN None
    ELSE Some(Segment(s, SegmentCount(s) - 1))

\* C11: a requested name of 1, 2 or 3 segments is mapped to component name
\* only, project + name, account + project + name, made of exactly the
\* segments supplied; it is accepted when all its segments are present and the
\* project (if any) resolves; a name of any other segment count fails with
\* the parse error, no call made and no selection returned.
C11_SegmentsMapToParts ==
    Requested =>
        LET n == SegmentCount(Raw) IN
        /\ n \notin {1, 2, 3} => ret = ParseError /\ calls = <<>>
        /\ (/\ n \in {1, 2, 3}
            /\ AllSegmentsPresent(Raw)
            /\ (cmd.rp # NotCalled => cmd.rp.ok)) => ParsedOk
        /\ ParsedOk =>
              /\ n \in {1, 2, 3}
              /\ Last(calls).call.component_names = <<Segment(Raw, n)>>
              /\ n = 1 => SelectProjectCalls = {}
              /\ n > 1 =>
                    /\ SelectProjectCalls = {1}
                    /\ calls[1].call.account_id = ExpectedAccount(Raw)
                    /\ calls[1].call.project_name = Segment(Raw, n - 1)
        /\ ret.ok =>
              /\ ret.val.account_id = ExpectedAccount(Raw)
              /\ ret.val.project.some = ExpectedProjectName(Raw).some
              /\ ret.val.project.some =>
                    ret.val.project.val.project_name = ExpectedProjectName(Raw).val

\* A name of three distinct parts was accepted and returned.
C11_Witness ==
    /\ Requested
    /\ ret.ok
    /\ Raw = <<"a", "/", "b", "/", "a">>
    /\ ret.val.account_id = Some(<<"a">>)
    /\ ret.val.project.val.project_name = <<"b">>

\* The role of the k-th of n segments.
Role(n, k) ==
    IF k = n THEN "component" ELSE IF k = n - 1 THEN "project" ELSE "account"

ExactlyOneEmpty(s) ==
    Cardinality({k \in 1..SegmentCount(s) : Segment(s, k) = <<>>}) = 1

EmptySegment(s) == CHOOSE k \in 1..SegmentCount(s) : Segment(s, k) = <<>>

\* C12: a requested name of 1, 2 or 3 segments of which exactly one is empty
\* fails with the missing-part error that names the role of the empty segment.
C12_EmptySegmentNamed ==
    (/\ Requested
     /\ SegmentCount(Raw) \in {1, 2, 3}
     /\ ExactlyOneEmpty(Raw)) =>
        ret = Err(<<"Missing part in component name",
                    Role(SegmentCount(Raw), EmptySegment(Raw))>>)

\* The command failed with one of the two errors of parsing.
Rejected ==
    /\ ~ret.ok
    /\ ret.err[1] \in {"Missing part in component name",
                       "Failed to parse component name"}

\* C13: no remote call is made while the requested name is parsed and
\* validated: a call is in the log only when the name has passed validation
\* (1 to 3 segments, all present), and whether the name is rejected depends on
\* the raw name alone, not on what the remote side answers.
C13_ParsingMakesNoRemoteCall ==
    Requested =>
        LET valid == SegmentCount(Raw) \in {1, 2, 3} /\ AllSegmentsPresent(Raw) IN
        /\ calls # <<>> => valid
        /\ Rejected <=> ~valid

\* Joining segments with the separator.
RECURSIVE Join(_)
Join(parts) ==
    IF Len(parts) = 1 THEN parts[1]
    ELSE parts[1] \o <<"/">> \o Join(Tail(parts))

\* The parts of an accepted name, as the handler passed them on: the account
\* given to select_project, the name of the project it returned, the
\* component name given to the selection in the application.
AcceptedParts ==
    LET name == Last(calls).call.component_names[1] IN
    IF SelectProjectCalls = {} THEN <<name>>
    ELSE IF calls[1].call.account_id.some
         THEN <<calls[1].call.account_id.val, calls[1].resp.val.project_name, name>>
         ELSE <<calls[1].resp.val.project_name, name>>

\* C14: an accepted name of one, two or three non-empty segments is
\* reproduced exactly by joining its account, project and component parts
\* with the separator.
C14_RoundTrip ==
    (ParsedOk /\ AllSegmentsPresent(Raw)) => Join(AcceptedParts) = Raw

\* A name of three distinct parts was accepted.
C14_Witness ==
    /\ ParsedOk
    /\ Raw = <<"b", "/", "a", "/", "b">>
    /\ Len(AcceptedParts) = 3

----------------------------------------------------------------------------
\* Properties of app_component_dynamic_linking, stated over the declared
\* dependencies (cmd.deps), the stub interfaces resolved for them (cmd.stubs)
\* and the value returned.

Linked == cmd.op = "app_component_dynamic_linking" /\ ret # NoRet

DynamicDeps ==
    {i \in 1..Len(cmd.deps) : cmd.deps[i].dep_type = "DynamicWasmRpc"}

StubOf(i) == cmd.stubs[cmd.deps[i].name]

AllResolved == \A i \in DynamicDeps : StubOf(i).ok

\* C15: when every stub resolution succeeds, the result is None exactly when
\* the component has no dependency of type DynamicWasmRpc; a map that is
\* returned has at least one key.
C15_NoneIffNoDynamicDependency ==
    Linked =>
        /\ AllResolved => (ret.ok /\ (~ret.val.some <=> DynamicDeps = {}))
        /\ (ret.ok /\ ret.val.some) => DOMAIN ret.val.val.dynamic_linking # {}

\* A component with a dynamic and a static dependency got a map.
C15_Witness ==
    /\ Linked
    /\ Cardinality(DynamicDeps) = 1
    /\ Len(cmd.deps) = 2
    /\ ret.ok
    /\ ret.val.some

DistinctStubNames ==
    \A i, j \in DynamicDeps :
        i # j => StubOf(i).val.stub_interface_name # StubOf(j).val.stub_interface_name

Exported(i) == StubOf(i).val.exported_interfaces_per_stub_resource

\* C16: when the dynamic dependencies resolve to stubs of pairwise distinct
\* names, the map has exactly one key per dynamic dependency, the stub's name;
\* its targets are one per resource the stub exports, each with the
\* resource's interface name, the stub's component name and the type
\* Ephemeral iff the stub is ephemeral; other dependencies give no key.
C16_OneKeyPerDynamicDependency ==
    (Linked /\ DynamicDeps # {} /\ AllResolved /\ DistinctStubNames) =>
        /\ ret.ok
        /\ ret.val.some
        /\ LET linking == ret.val.val.dynamic_linking IN
           /\ DOMAIN linking = {StubOf(i).val.stub_interface_name : i \in DynamicDeps}
           /\ Cardinality(DOMAIN linking) = Cardinality(DynamicDeps)
           /\ \A i \in DynamicDeps :
                 LET targets == linking[StubOf(i).val.stub_interface_name].targets IN
                 /\ DOMAIN targets = {Exported(i)[k][1] : k \in 1..Len(Exported(i))}
                 /\ Cardinality(DOMAIN targets) = Len(Exported(i))
                 /\ \A k \in 1..Len(Exported(i)) :
                       targets[Exported(i)[k][1]] =
                           [interface_name |-> Exported(i)[k][2],
                            component_name |-> StubOf(i).val.component_name,
                            component_type |->
                                IF StubOf(i).val.is_ephemeral THEN "Ephemeral"
                                ELSE "Durable"]

\* One dynamic dependency, whose ephemeral stub exports two resources, next to
\* a static one.
C16_Witness ==
    /\ Linked
    /\ Len(cmd.deps) = 2
    /\ Cardinality(DynamicDeps) = 1
    /\ AllResolved
    /\ \E i \in DynamicDeps : StubOf(i).val.is_ephemeral /\ Len(Exported(i)) = 2
    /\ ret.ok
    /\ Cardinality(DOMAIN ret.val.val.dynamic_linking) = 1

----------------------------------------------------------------------------
\* Properties of deploy over the components it selected

DeployReturned == InDeploy /\ frame.pc = "returned"

NotDeployable == Err(<<"app", "not deployable">>)

\* The selected components the loop has gone past (the ones before the
\* current index).
Processed == {j \in 1..Len(frame.selected) : j < frame.i}

NotDeployableAt(j) == frame.component_types[j] \notin DeployableComponentTypes

NamesOf(components) == [k \in 1..Len(components) |-> components[k].component_name]

\* The deployable components among the first n selected, in selection order.
RECURSIVE DeployableSelected(_)
DeployableSelected(n) ==
    IF n = 0 THEN <<>>
    ELSE IF NotDeployableAt(n) THEN DeployableSelected(n - 1)
         ELSE Append(DeployableSelected(n - 1), frame.selected[n])

CallsNaming(name) ==
    {k \in 1..Len(calls) : "name" \in DOMAIN calls[k].call /\ calls[k].call.name = name}

\* C17 as stated: a deploy that has gone past a selected component whose type
\* is not deployable ends with the not-deployable failure.
C17_NotDeployableSignalled ==
    (DeployReturned /\ \E j \in Processed : NotDeployableAt(j)) =>
        ret = NotDeployable

\* C17 as amended: a selected component whose declared type is not deployable
\* is passed over without any failure and without any call made for it, and
\* the deployable ones before and after it are deployed in selection order.
C17_NotDeployablePassedOver ==
    InDeploy =>
        /\ ret # NotDeployable
        /\ \A j \in 1..Len(frame.selected) :
              NotDeployableAt(j) =>
                  /\ CallsNaming(frame.selected[j]) = {}
                  /\ \A k \in 1..Len(frame.components) :
                        frame.components[k].component_name # frame.selected[j]
        /\ frame.pc = "loop" =>
              NamesOf(frame.components) = DeployableSelected(frame.i - 1)

\* deploy returned Ok after passing over the first selected component and
\* deploying the second.
C17_Witness ==
    /\ DeployReturned
    /\ ret = Ok(Unit)
    /\ Len(frame.selected) = 2
    /\ NotDeployableAt(1)
    /\ ~NotDeployableAt(2)
    /\ NamesOf(frame.components) = <<frame.selected[2]>>

DeployStepOps == {"get_components"} \cup MutatingOps
WorkerStepOps == {"update_component_workers", "redeploy_component_workers"}

DeploySteps == {k \in 1..Len(calls) : calls[k].call.op \in DeployStepOps}
WorkerSteps == {k \in 1..Len(calls) : calls[k].call.op \in WorkerStepOps}

\* The component a call is made for (an update names it by its id).
ComponentOfCall(k) ==
    IF calls[k].call.op = "update_component"
    THEN IF RecordsById(calls[k].call.id) = {} THEN "unknown"
         ELSE Latest(calls[k].call.id).component_name
    ELSE calls[k].call.name

PositionSelected(name) == CHOOSE j \in 1..Len(frame.selected) : frame.selected[j] = name

\* Within the steps S, once a step of another component has been taken no
\* step of an earlier component follows.
OneAtATime(S) ==
    \A i, j, k \in S :
        (i < j /\ j < k /\ ComponentOfCall(i) # ComponentOfCall(j)) =>
            ComponentOfCall(k) # ComponentOfCall(i)

\* C19 as stated: all the steps of a component, its worker lifecycle step
\* included, are taken before any step of the next component.
C19_LifecycleBeforeNextComponent ==
    InDeploy => OneAtATime(DeploySteps \cup WorkerSteps)

\* C19 as amended: the lookup and the create/update of a component are taken
\* before any step of the next selected component, one lookup per component,
\* in selection order; the worker lifecycle steps are taken only after the
\* last create/update, over the deployed components in that order.
C19_DeployStepsThenWorkerBatch ==
    InDeploy =>
        /\ OneAtATime(DeploySteps)
        /\ \A i, j \in DeploySteps :
              i < j => PositionSelected(ComponentOfCall(i))
                          <= PositionSelected(ComponentOfCall(j))
        /\ \A i, j \in DeploySteps :
              (/\ i < j
               /\ calls[i].call.op = "get_components"
               /\ calls[j].call.op = "get_components") =>
                  ComponentOfCall(i) # ComponentOfCall(j)
        /\ \A d \in DeploySteps, w \in WorkerSteps : d < w
        /\ \A w \in WorkerSteps :
              LET n == Cardinality({v \in WorkerSteps : v <= w}) IN
              /\ n <= Len(frame.components)
              /\ ComponentOfCall(w) = frame.components[n].component_name

\* Two components were deployed, then the worker step went over both.
C19_Witness ==
    /\ DeployReturned
    /\ Len(MutatingCalls) = 2
    /\ Cardinality(WorkerSteps) = 2
    /\ \A d \in DeploySteps, w \in WorkerSteps : d < w

Written == {k \in 1..Len(calls) : calls[k].call.op \in MutatingOps /\ calls[k].resp.ok}

FailedWorkerSteps == {k \in WorkerSteps : ~calls[k].resp.ok}

\* C20: nothing is rolled back: every version a create/update of this deploy
\* wrote is still the latest version of its component in the store, also after
\* a failed worker step, in which case deploy returns an error; no create or
\* update is issued after a failed call.
C20_NoRollback ==
    InDeploy =>
        /\ \A k \in Written :
              /\ calls[k].resp.val \in store
              /\ Latest(calls[k].resp.val.component_id) = calls[k].resp.val
        /\ FailedWorkerSteps # {} => (frame.pc = "returned" /\ ~ret.ok)
        /\ \A i, j \in 1..Len(calls) :
              (i < j /\ ~calls[i].resp.ok) => calls[j].call.op \notin MutatingOps

\* A create and an update succeeded, then the worker step of the second
\* component failed and deploy returned its error.
C20_Witness ==
    /\ DeployReturned
    /\ ~ret.ok
    /\ Cardinality(Written) = 2
    /\ \E k \in Written : calls[k].call.op = "create_component"
    /\ \E k \in Written : calls[k].call.op = "update_component"
    /\ Cardinality(WorkerSteps) = 2
    /\ Cardinality(FailedWorkerSteps) = 1

----------------------------------------------------------------------------
\* Properties of cmd_get, stated over its inputs (cmd), the calls issued and
\* the return value.

GetReturned == cmd.op = "get" /\ frame.pc = "returned"

MetadataCalls ==
    {k \in 1..Len(calls) :
        calls[k].call.op \in {"get_component_metadata",
                              "get_latest_component_metadata"}}

\* The selected components found (at the requested version, if any).
Found == {k \in MetadataCalls : calls[k].resp.ok}

VersionMissing ==
    \E k \in MetadataCalls :
        /\ calls[k].call.op = "get_component_metadata"
        /\ calls[k].resp = Err("not_found")

\* The listing of the available versions: a listing by a name that was
\* already listed for the lookup.
ListingCalls ==
    {k \in 1..Len(calls) :
        /\ calls[k].call.op = "get_components"
        /\ \E j \in 1..(k - 1) :
              /\ calls[j].call.op = "get_components"
              /\ calls[j].call.name = calls[k].call.name}

\* No call failed, a not-found answer to a metadata request not counting as a
\* failure.
NoRemoteFailure ==
    \A k \in 1..Len(calls) :
        calls[k].resp.ok \/ (k \in MetadataCalls /\ calls[k].resp = Err("not_found"))

----------------------------------------------------------------------------
\* Properties of one deploy invocation, stated over the calls it has issued

\* The calls with an operation in ops that are made for the component name.
CallsFor(name, ops) ==
    {k \in 1..Len(calls) : calls[k].call.op \in ops /\ ComponentOfCall(k) = name}

BuildCalls == CallsOf("build")

\* C21: no operation is retried. Within one deploy invocation the by-name
\* lookup, the create-or-update call and the worker update/redeploy call are
\* each issued at most once for a component, whatever any of them returned,
\* and the build is invoked exactly once.
C21_NoRetry ==
    InDeploy =>
        /\ \A n \in ComponentNames :
              /\ Cardinality(CallsFor(n, {"get_components"})) <= 1
              /\ Cardinality(CallsFor(n, MutatingOps)) <= 1
              /\ Cardinality(CallsFor(n, WorkerStepOps)) <= 1
        /\ Len(BuildCalls) = IF frame.pc = "build" THEN 0 ELSE 1

\* Two components were looked up and written, the worker update of the first
\* one failed, and deploy returned that failure.
C21_Witness ==
    /\ DeployReturned
    /\ ~ret.ok
    /\ Len(LookupCalls) = 2
    /\ Len(MutatingCalls) = 2
    /\ Len(BuildCalls) = 1
    /\ Last(calls).call.op = "update_component_workers"
    /\ ~Last(calls).resp.ok

----------------------------------------------------------------------------
\* Properties of deploy_component racing with another client's create

\* The create calls the store refused because the name was bound.
RefusedCreates ==
    {k \in 1..Len(calls) : /\ calls[k].call.op = "create_component"
                           /\ calls[k].resp = Err("conflict")}

IdsBoundTo(name) == {c.component_id : c \in RecordsByName(name)}

\* The lookup of the component being deployed found nothing, and another
\* client has bound its name since.
LostRace ==
    /\ InDeploy
    /\ frame.pc \in {"properties", "archive", "open_archive", "open_wasm", "mutate"}
    /\ ~frame.component_id.some
    /\ RecordsByName(frame.selected[frame.i]) # {}

\* C22: when another client creates the component between the lookup and the
\* create of deploy_component, the create is refused and deploy_component
\* returns the store's conflict error as it is, no create or update follows it,
\* and the name stays bound to exactly one component id.
C22_ConflictSurfacedOnce ==
    /\ [](InDeploy =>
            /\ \A n \in ComponentNames : Cardinality(IdsBoundTo(n)) <= 1
            /\ \A k \in RefusedCreates :
                  /\ k = Len(calls)
                  /\ frame.pc = "returned"
                  /\ ret = map_service_error(calls[k].resp)
                  /\ ret = Err(<<"service", "conflict">>)
                  /\ Cardinality(CallsFor(calls[k].call.name, MutatingOps)) = 1
                  /\ Cardinality(IdsBoundTo(calls[k].call.name)) = 1)
    /\ [][(LostRace /\ frame.pc = "mutate" /\ calls' # calls) =>
            /\ Last(calls').call.op = "create_component"
            /\ ~Last(calls').resp.ok
            /\ frame'.pc = "returned"
            /\ store' = store]_vars

\* The lookup of the component found nothing, another client created it, and
\* the create of deploy_component was refused.
C22_Witness ==
    /\ DeployReturned
    /\ RefusedCreates # {}
    /\ LookupCalls # <<>>
    /\ Last(LookupCalls).call.name = Last(calls).call.name
    /\ Last(LookupCalls).resp = Ok(<<>>)
    /\ Cardinality(IdsBoundTo(Last(calls).call.name)) = 1

----------------------------------------------------------------------------
\* Properties of the order of the steps of deploy_component

\* The component deploy_component is running for.
Current == frame.selected[frame.i]

InDeployComponent ==
    /\ InDeploy
    /\ frame.pc \in {"lookup", "properties", "archive", "open_archive",
                     "open_wasm", "mutate", "deployed"}

BuildSucceeded == BuildCalls # <<>> /\ calls[1].call.op = "build" /\ calls[1].resp.ok

\* The by-name lookup of the current component has been answered.
LookedUp ==
    \E k \in CallsFor(Current, {"get_components"}) :
        /\ calls[k].resp.ok
        /\ \A j \in k + 1..Len(calls) : calls[j].call.op # "get_components"

\* The archive of the current component has been built, after its lookup.
ArchiveBuilt ==
    /\ calls # <<>>
    /\ \E k \in 1..Len(calls) :
          /\ calls[k].call.op = "build_files_archive"
          /\ calls[k].resp.ok
          /\ calls[k].call.files = frame.deploy_properties.val.files
          /\ \E l \in CallsFor(Current, {"get_components"}) : l < k

\* Everything create/update needs has succeeded for the current component.
ReadyToWrite ==
    /\ frame.pc = "mutate"
    /\ BuildSucceeded
    /\ LookedUp
    /\ frame.deploy_properties.some
    /\ frame.deploy_properties.val.files # <<>> =>
          ArchiveBuilt /\ frame.ifs_files.some /\ frame.ifs_archive.some
    /\ frame.linked_wasm = Some(frame.deploy_properties.val.linked_wasm_path)

Issued(ops) == Len(calls') = Len(calls) + 1 /\ Last(calls').call.op \in ops

\* C23: the steps of a component are taken in the order build, by-name
\* lookup, deploy properties, archive of the initial files (when there are
\* files), open of the archive and of the linked artifact, create/update: the
\* lookup is answered before the properties are computed, and create/update is
\* issued only when every step before it has succeeded for that component.
C23_StepsInOrder ==
    /\ [](InDeploy =>
            /\ calls # <<>> => calls[1].call.op = "build"
            /\ Len(calls) > 1 => BuildSucceeded)
    /\ [](InDeployComponent =>
            /\ BuildSucceeded
            /\ frame.dependencies.some => LookedUp
            /\ frame.deploy_properties.some => frame.dependencies.some
            /\ frame.ifs_files.some => frame.deploy_properties.some /\ ArchiveBuilt
            /\ frame.ifs_archive.some => frame.ifs_files.some
            /\ frame.linked_wasm.some =>
                  /\ frame.deploy_properties.some
                  /\ frame.deploy_properties.val.files # <<>> => frame.ifs_archive.some
            /\ frame.component.some => frame.linked_wasm.some)
    /\ [][(InDeploy /\ Issued({"get_components"})) =>
              frame.pc = "lookup" /\ ~frame.dependencies.some]_vars
    /\ [][(InDeploy /\ Issued({"build_files_archive"})) =>
              LookedUp /\ frame.deploy_properties.some /\ ~frame.linked_wasm.some]_vars
    /\ [][(InDeploy /\ Issued(MutatingOps)) => ReadyToWrite]_vars

\* The second component, which has initial files, has been updated.
C23_Witness ==
    /\ InDeploy
    /\ frame.pc = "deployed"
    /\ frame.i = 2
    /\ frame.ifs_archive.some
    /\ Last(calls).call.op = "update_component"
    /\ Last(calls).resp.ok
    /\ Len(CallsOf("build_files_archive")) = 1

----------------------------------------------------------------------------
\* Properties of the initial-files archive of deploy_component

ArchiveCalls == {k \in 1..Len(calls) : calls[k].call.op = "build_files_archive"}

\* The archive builds between the lookup that precedes the mutating call k
\* and that call.
ArchivesBefore(k) ==
    LET l == MaxOf({j \in 1..k : calls[j].call.op = "get_components"}) IN
    {a \in ArchiveCalls : l < a /\ a < k}

HasFiles == frame.deploy_properties.val.files # <<>>

\* C24: deploy_component builds the archive of the initial files, and gives
\* create/update the file properties and the opened archive, exactly when the
\* component's list of initial files is not empty; with an empty list the
\* archive builder is not invoked and create/update gets neither (None, not an
\* empty archive).
C24_ArchiveIffFiles ==
    /\ [](InDeploy =>
            /\ \A a \in ArchiveCalls : calls[a].call.files # <<>>
            /\ \A k \in 1..Len(calls) :
                  calls[k].call.op \in MutatingOps =>
                      /\ calls[k].call.ifs_properties.some <=> calls[k].call.ifs_archive.some
                      /\ calls[k].call.ifs_properties.some <=> ArchivesBefore(k) # {}
                      /\ Cardinality(ArchivesBefore(k)) <= 1
                      /\ \A a \in ArchivesBefore(k) :
                            /\ calls[a].resp.ok
                            /\ calls[k].call.ifs_properties = Some(calls[a].call.files)
                            /\ calls[k].call.ifs_archive = Some(calls[a].resp.val.archive_path))
    /\ [][(InDeploy /\ Issued({"build_files_archive"})) =>
              HasFiles /\ Last(calls').call.files = frame.deploy_properties.val.files]_vars
    /\ [][(InDeploy /\ Issued(MutatingOps)) =>
              IF HasFiles
              THEN /\ Last(calls').call.ifs_properties =
                          Some(frame.deploy_properties.val.files)
                   /\ Last(calls').call.ifs_archive.some
              ELSE /\ Last(calls').call.ifs_properties = None
                   /\ Last(calls').call.ifs_archive = None]_vars

\* One component without initial files and one with them have been written.
C24_Witness ==
    /\ InDeploy
    /\ Len(MutatingCalls) = 2
    /\ MutatingCalls[1].call.ifs_archive = None
    /\ MutatingCalls[1].call.ifs_properties = None
    /\ MutatingCalls[2].call.ifs_archive.some
    /\ Cardinality(ArchiveCalls) = 1

----------------------------------------------------------------------------
\* Properties of a deploy whose build fails

BuildFailed == InDeploy /\ BuildCalls # <<>> /\ ~BuildCalls[1].resp.ok

\* C25: when the build fails, deploy returns the build's error and nothing is
\* deployed: no lookup, no create/update and no worker call is issued, for
\* any selected component.
C25_BuildFailureAborts ==
    BuildFailed =>
        /\ calls = <<BuildCalls[1]>>
        /\ frame.pc = "returned"
        /\ ret = Err(BuildCalls[1].resp.err)
        /\ frame.selected = <<>>
        /\ frame.components = <<>>
        /\ DeploySteps = {}
        /\ WorkerSteps = {}

\* The build failed in a deploy that follows a successful one, with a worker
\* update requested.
C25_Witness ==
    /\ BuildFailed
    /\ DeployReturned
    /\ store # {}
    /\ cmd.clients_ok
    /\ cmd.update_or_redeploy.update_workers.some

----------------------------------------------------------------------------
\* Properties of the worker update that follows the deploys

\* The components returned by the create/update calls that succeeded, in the
\* order of the calls.
WrittenComponents ==
    LET ok == SelectSeq(MutatingCalls, LAMBDA e : e.resp.ok) IN
    [j \in 1..Len(ok) |-> ok[j].resp.val]

\* Every selected component has been gone through: the worker step is reached.
LoopFinished == frame.i > Len(frame.selected)

\* C26: when a worker update is requested, a deploy that has gone through its
\* components and returned has applied the update to every component whose
\* create/update succeeded, once each and in selection order, with the
\* component id and the version that create/update returned.
C26_UpdateAppliedToEveryDeployed ==
    (/\ DeployReturned
     /\ LoopFinished
     /\ cmd.update_or_redeploy.update_workers.some) =>
        /\ Len(UpdateCalls) = Len(WrittenComponents)
        /\ \A j \in 1..Len(UpdateCalls) :
              UpdateCalls[j].call =
                  update_component_workers_call(WrittenComponents[j],
                      cmd.update_or_redeploy.update_workers.val)

----------------------------------------------------------------------------
\* Properties of the application context lock in deploy and deploy_component

\* The positions at which the handler awaits the build, a store call, the
\* archive builder, a file open or a worker lifecycle call.
SuspensionPoints ==
    {"build", "lookup", "archive", "open_archive", "open_wasm", "mutate",
     "update_workers", "redeploy_workers"}

\* The positions at which the handler acquires the lock.
AcquirePoints == {"select", "loop", "properties"}

\* C27: the application context lock is not held while a store call, a
\* worker lifecycle call or a file open is in flight, and the handler never
\* acquires the lock while a guard of it is alive, also after a selected
\* component that is not deployable was passed over.
C27_LockReleasedAtAwaits ==
    /\ [](InDeploy =>
            /\ frame.pc \in SuspensionPoints => ~frame.app_ctx
            /\ frame.pc \in AcquirePoints => ~frame.app_ctx
            /\ frame.app_ctx => frame.pc = "locked")
    /\ [][(InDeploy /\ calls' # calls /\ calls' # <<>>) =>
              ~frame.app_ctx /\ ~frame'.app_ctx]_vars
    /\ [][(InDeploy /\ frame.pc = "locked" /\ NotDeployableAt(frame.i)) =>
              frame'.pc = "loop" /\ ~frame'.app_ctx]_vars

\* The lock is taken for the second component after the first one, which is
\* not deployable, was passed over.
C27_Witness ==
    /\ InDeploy
    /\ frame.pc = "locked"
    /\ frame.app_ctx
    /\ frame.i = 2
    /\ NotDeployableAt(1)

----------------------------------------------------------------------------
\* Properties of the choice of the worker lifecycle action

UpdateRequested == cmd.update_or_redeploy.update_workers.some
RedeployRequested == cmd.update_or_redeploy.redeploy_workers

\* C28: worker lifecycle actions run only when requested and at most one
\* kind per deploy: none when neither is requested; only the update when an
\* update mode is given, whatever the redeploy flag; the redeploy only when no
\* update mode is given and the redeploy flag is set.
C28_OneLifecycleKind ==
    InDeploy =>
        /\ (~UpdateRequested /\ ~RedeployRequested) => WorkerSteps = {}
        /\ UpdateRequested => RedeployCalls = <<>>
        /\ UpdateCalls # <<>> => UpdateRequested
        /\ RedeployCalls # <<>> => ~UpdateRequested /\ RedeployRequested
        /\ \A j \in 1..Len(UpdateCalls) :
              UpdateCalls[j].call.update = cmd.update_or_redeploy.update_workers.val
        /\ frame.pc = "update_workers" => UpdateRequested
        /\ frame.pc = "redeploy_workers" => ~UpdateRequested /\ RedeployRequested
        /\ (DeployReturned /\ ret.ok) =>
              /\ UpdateRequested => Len(UpdateCalls) = Len(frame.components)
              /\ (~UpdateRequested /\ RedeployRequested) =>
                    Len(RedeployCalls) = Len(frame.components)

\* Both an update mode and the redeploy flag were given: two components were
\* deployed and updated, none redeployed.
C28_Witness ==
    /\ DeployReturned
    /\ ret.ok
    /\ UpdateRequested
    /\ RedeployRequested
    /\ Len(UpdateCalls) = 2
    /\ RedeployCalls = <<>>

----------------------------------------------------------------------------
\* Properties of a deploy whose dynamic linking cannot be resolved

\* The dynamic dependencies the component being deployed declares.
DeclaredDynamic == wasm_rpc_deps(frame.dependencies.val.deps)

\* The positions, among them, of the ones whose stub interfaces are not
\* resolved.
UnresolvedDeps ==
    {i \in 1..Len(DeclaredDynamic) :
        ~frame.dependencies.val.stubs[DeclaredDynamic[i].name].ok}

StubResolutionFailed ==
    InDeploy /\ frame.dependencies.some /\ UnresolvedDeps # {}

\* C29: when the stub interfaces of a dynamic dependency cannot be resolved,
\* app_component_dynamic_linking returns that error and no map of the
\* dependencies that did resolve, component_deploy_properties fails with it,
\* and deploy_component returns it without a create or update call for the
\* component.
C29_StubFailureStopsDeploy ==
    StubResolutionFailed =>
        LET first == CHOOSE i \in UnresolvedDeps : \A j \in UnresolvedDeps : i <= j
            error == frame.dependencies.val.stubs[DeclaredDynamic[first].name]
            linking == app_component_dynamic_linking(frame.dependencies.val.deps,
                                                     frame.dependencies.val.stubs) IN
        /\ ~linking.ok
        /\ linking = error
        /\ component_deploy_properties(Current, frame.component_types[frame.i],
                                       <<"f1">>, linking) = error
        /\ frame.pc = "returned"
        /\ ret = error
        /\ ~frame.deploy_properties.some
        /\ CallsFor(Current, MutatingOps) = {}
        /\ Len(MutatingCalls) = Len(frame.components)

\* The second component declares two dynamic dependencies; the first one is
\* resolved, the second one is not, and deploy returned that error after
\* the first component was written.
C29_Witness ==
    /\ StubResolutionFailed
    /\ DeployReturned
    /\ Len(DeclaredDynamic) = 2
    /\ UnresolvedDeps = {2}
    /\ frame.i = 2
    /\ Len(frame.components) = 1
    /\ ret = Err(<<"app", "stub interfaces">>)

----------------------------------------------------------------------------
\* Properties of app_component_dynamic_linking for dependencies that resolve
\* to the same stub interface name

\* The dynamic dependencies whose stub has the interface name s.
SharingStub(s) == {i \in DynamicDeps : StubOf(i).val.stub_interface_name = s}

ResourcesOf(i) == {Exported(i)[k][1] : k \in 1..Len(Exported(i))}

LinkedAll == Linked /\ DynamicDeps # {} /\ AllResolved

\* C30 as stated: the value under a stub interface name holds the
\* resource-to-target pairs of every dynamic dependency that resolves to that
\* name: no dependency's targets are lost.
C30_SameStubAggregated ==
    LinkedAll =>
        /\ ret.ok
        /\ ret.val.some
        /\ \A i \in DynamicDeps :
              ResourcesOf(i) \subseteq
                  DOMAIN ret.val.val.dynamic_linking[
                             StubOf(i).val.stub_interface_name].targets

\* C30 as amended: the map has one key per stub interface name, and the value
\* under a name holds the resource-to-target pairs of one stub, the one of the
\* last dynamic dependency that resolves to that name; the pairs of an earlier
\* dependency with the same name are replaced, not merged.
C30_LaterStubReplacesEarlier ==
    LinkedAll =>
        /\ ret.ok
        /\ ret.val.some
        /\ LET linking == ret.val.val.dynamic_linking IN
           /\ DOMAIN linking = {StubOf(i).val.stub_interface_name : i \in DynamicDeps}
           /\ \A s \in DOMAIN linking :
                 LET last == MaxOf(SharingStub(s)) IN
                 /\ linking[s] = DynamicLinkedInstance(StubOf(last).val)[2]
                 /\ DOMAIN linking[s].targets = ResourcesOf(last)
                 /\ \A k \in 1..Len(Exported(last)) :
                       linking[s].targets[Exported(last)[k][1]] =
                           WasmRpcTarget(StubOf(last).val, Exported(last)[k][2])

\* Two dynamic dependencies resolve to the same stub interface name; the
\* first exports two resources, the second one, and the map holds the one of
\* the second only.
C30_Witness ==
    /\ LinkedAll
    /\ DynamicDeps = {1, 2}
    /\ StubOf(1).val.stub_interface_name = StubOf(2).val.stub_interface_name
    /\ Len(Exported(1)) = 2
    /\ Len(Exported(2)) = 1
    /\ DOMAIN ret.val.val.dynamic_linking[StubOf(1).val.stub_interface_name].targets
           = {"r1"}

----------------------------------------------------------------------------
\* Properties of component() pinned to the version of a worker

\* The initial lookup found a component and worker_metadata answered with the
\* version the worker runs at.
WorkerVersionKnown ==
    /\ InitialFound
    /\ cmd.vsel.some
    /\ cmd.vsel.val.kind = "ByWorkerName"
    /\ cmd.r2 # NotCalled
    /\ cmd.r2.ok

WorkerVersion == cmd.r2.val.component_version

\* C33: component() with ByWorkerName(w), when the component is found and
\* worker_metadata answers with version n, asks get_component_metadata for the
\* found component's id at version n and returns that record, of the same id
\* and of version n exactly; when that call fails it returns the error. The
\* result is the latest record only when n is the latest version.
C33_PinnedToWorkerVersion ==
    WorkerVersionKnown =>
        /\ Len(calls) = 3
        /\ calls[2].call.op = "worker_metadata"
        /\ calls[2].call.id = FoundComponent.component_id
        /\ calls[2].call.worker_name = cmd.vsel.val.worker_name
        /\ calls[3] = Called([op |-> "get_component_metadata", backend |-> cmd.backend,
                              id |-> FoundComponent.component_id,
                              version |-> WorkerVersion], cmd.r3)
        /\ IF cmd.r3.ok
           THEN /\ ret = Ok(Some(cmd.r3.val))
                /\ ret.val.val.component_id = FoundComponent.component_id
                /\ ret.val.val.version = WorkerVersion
                /\ ret.val.val \in store
                /\ ret.val.val = Latest(FoundComponent.component_id) =>
                       WorkerVersion = HighestVersion(
                                           RecordsById(FoundComponent.component_id))
           ELSE ret = Err(<<"service", cmd.r3.err>>)

\* The worker runs at version 0 of a component that has three versions: the
\* record of version 0 is returned, not the one the lookup found.
C33_Witness ==
    /\ WorkerVersionKnown
    /\ Cardinality(RecordsById(FoundComponent.component_id)) = 3
    /\ FoundComponent.version = 2
    /\ WorkerVersion = 0
    /\ ret.ok
    /\ ret.val.val.version = 0
    /\ ret.val.val # FoundComponent

----------------------------------------------------------------------------
\* Properties of component() when the initial lookup finds nothing

\* C36: when the initial lookup of component() finds nothing, the version
\* selection is not looked at: the result is Ok(None) for ByExplicitVersion and
\* ByWorkerName alike, and neither worker_metadata nor get_component_metadata
\* is called.
C36_AbsentIgnoresVersionSelection ==
    InitialAbsent =>
        /\ ret = Ok(None)
        /\ calls = <<Called(initial_call(cmd.backend, cmd.project, cmd.sel), cmd.r1)>>
        /\ "worker_metadata" \notin CallOps
        /\ "get_component_metadata" \notin CallOps
        /\ cmd.r2 = NotCalled
        /\ cmd.r3 = NotCalled

\* A component looked up by id is not found while a worker's version was
\* asked for, in a store that holds other components.
C36_Witness ==
    /\ InitialAbsent
    /\ cmd.sel.kind = "Id"
    /\ cmd.vsel.some
    /\ cmd.vsel.val.kind = "ByWorkerName"
    /\ store # {}
    /\ ret = Ok(None)

\* The same for a name that is listed empty with an explicit version.
C36_WitnessByName ==
    /\ InitialAbsent
    /\ cmd.sel.kind = "Name"
    /\ cmd.vsel.some
    /\ cmd.vsel.val.kind = "ByExplicitVersion"
    /\ ret = Ok(None)

----------------------------------------------------------------------------
\* Properties of the version check of cmd_get

InGet == cmd.op = "get"

VersionRefused == ret = NonSuccessfulExit("Version cannot be specified")

\* The selection has been made (it is kept in frame.selected from then on).
GetSelected == InGet /\ frame.pc # "get_select" /\ ret # Err(<<"select", "failed">>)

\* C38: cmd_get with an explicit version and more than one selected
\* component fails with a non-successful exit before any call to the store;
\* with at most one selected component, or without a version, the version
\* check does not refuse the command.
C38_VersionNeedsSingleComponent ==
    GetSelected =>
        IF cmd.version.some /\ Len(frame.selected) > 1
        THEN /\ frame.pc = "returned"
             /\ VersionRefused
             /\ calls = <<>>
        ELSE /\ ~VersionRefused
             /\ frame.pc = "returned" =>
                   (calls # <<>> \/ frame.selected = <<>> \/ ~cmd.clients_ok)

\* Two components were selected with a version, in a store that holds them:
\* the command was refused without a call.
C38_Witness ==
    /\ GetSelected
    /\ cmd.version.some
    /\ Len(frame.selected) = 2
    /\ \A j \in 1..2 : RecordsByName(frame.selected[j]) # {}
    /\ VersionRefused
    /\ calls = <<>>

\* One component was selected with a version and its metadata was fetched.
C38_WitnessSingle ==
    /\ GetSelected
    /\ cmd.version.some
    /\ Len(frame.selected) = 1
    /\ frame.pc = "returned"
    /\ ret = Ok(Unit)

----------------------------------------------------------------------------
\* Properties of a deploy in which deploy_component fails

\* deploy returned the failure of deploy_component for the selected component
\* at position frame.i.
DeployComponentFailed ==
    /\ DeployReturned
    /\ ~ret.ok
    /\ frame.i \in 1..Len(frame.selected)

\* C35: when deploy_component fails for a selected component, deploy returns
\* that error at once: no lookup and no create/update is issued for a later
\* component, the components deployed before it keep the versions just
\* written, and no worker update or redeploy is invoked, for the components
\* already deployed either.
C35_FailFastKeepsEarlier ==
    /\ [](DeployComponentFailed =>
            /\ WorkerSteps = {}
            /\ \A k \in 1..Len(calls) - 1 : calls[k].resp.ok
            /\ \A j \in frame.i + 1..Len(frame.selected) :
                  /\ CallsNaming(frame.selected[j]) = {}
                  /\ CallsFor(frame.selected[j], MutatingOps) = {}
            /\ NamesOf(frame.components) = DeployableSelected(frame.i - 1)
            /\ Len(SelectSeq(MutatingCalls, LAMBDA e : e.resp.ok)) = Len(frame.components)
            /\ \A k \in 1..Len(frame.components) :
                  /\ frame.components[k] \in store
                  /\ frame.components[k] = Latest(frame.components[k].component_id))
    /\ [][(InDeploy /\ frame.pc = "returned") => cmd' = Idle /\ store' = store]_vars

\* The second selected component failed in its create after the first one was
\* written, with a worker update requested.
C35_Witness ==
    /\ DeployComponentFailed
    /\ cmd.update_or_redeploy.update_workers.some
    /\ Len(frame.selected) >= 2
    /\ frame.i = 2
    /\ Len(frame.components) = 1
    /\ Last(calls).call.op \in MutatingOps
    /\ ~Last(calls).resp.ok

----------------------------------------------------------------------------
\* Properties of components_for_update_or_redeploy

InUpdateOrRedeploy == cmd.op \in {"update_workers", "redeploy_workers"}

\* The components the answered lookups found, in the order of the lookups.
RECURSIVE FoundBy(_)
FoundBy(lookups) ==
    IF lookups = <<>> THEN <<>>
    ELSE LET l == Last(lookups)
             before == FoundBy(SubSeq(lookups, 1, Len(lookups) - 1)) IN
         IF l.resp.ok /\ l.resp.val # <<>> THEN Append(before, Last(l.resp.val))
         ELSE before

LookupFailed == LookupCalls # <<>> /\ ~Last(LookupCalls).resp.ok

----------------------------------------------------------------------------
\* Properties of component_by_name_with_auto_deploy

InAutoDeploy == cmd.op = "component_by_name_with_auto_deploy"

AutoDeployReturned == InAutoDeploy /\ frame.pc = "auto_deploy_returned"

PromptOps == {"confirm_auto_deploy_component", "log_dynamic_help"}

\* deploy has been entered by the command.
DeployEntered ==
    \/ frame.pc \notin {"should_deploy", "auto_deploy_returned"}
    \/ CallOps \cap ({"build"} \cup MutatingOps) # {}

\* The lookup the command starts with found no component of the name.
FirstLookupAbsent ==
    /\ cmd.clients_ok
    /\ calls # <<>>
    /\ calls[1].resp = Ok(<<>>)

\* The calls of the lookup the command starts with: those before any prompt.
FirstLookupCalls ==
    {k \in 1..Len(calls) : \A j \in 1..k : calls[j].call.op \notin PromptOps \cup {"build"}}

FirstLookupFailed ==
    \/ ~cmd.clients_ok
    \/ \E k \in FirstLookupCalls :
          /\ calls[k].call.op \in {"get_components", "get_component_metadata"}
          /\ ~calls[k].resp.ok

Answered(answer) ==
    /\ Len(calls) >= 2
    /\ calls[2] = Called([op |-> "confirm_auto_deploy_component",
                          name |-> cmd.component_name], answer)

HelpFailed ==
    /\ Len(calls) >= 2
    /\ calls[2].call.op = "log_dynamic_help"
    /\ \/ ~calls[2].resp.ok
       \/ calls[2].resp.val.some /\ ~calls[2].resp.val.val.ok

\* C32: component_by_name_with_auto_deploy enters deploy only after its lookup
\* returned None, for a name matched as App or AppCurrentDir, and after the
\* user confirmed; for a name matched as Unknown and when the user declines it
\* fails (with NonSuccessfulExit, or with the error of logging the help) and
\* nothing is written to the store; an error of the lookup is returned without
\* a prompt and without a deploy.
C32_AutoDeployOnlyWhenAbsentAndConfirmed ==
    /\ [](InAutoDeploy =>
            /\ DeployEntered =>
                  /\ FirstLookupAbsent
                  /\ cmd.component_match_kind \in {"App", "AppCurrentDir"}
                  /\ Answered(Ok(TRUE))
            /\ (FirstLookupAbsent /\ frame.pc # "should_deploy"
                  /\ (cmd.component_match_kind = "Unknown" \/ Answered(Ok(FALSE)))) =>
                  /\ frame.pc = "auto_deploy_returned"
                  /\ ~ret.ok
                  /\ ~HelpFailed => ret.err[1] = "NonSuccessfulExit"
                  /\ Len(calls) = 2
                  /\ ~DeployEntered
            /\ FirstLookupFailed =>
                  /\ frame.pc = "auto_deploy_returned"
                  /\ ~ret.ok
                  /\ cmd.clients_ok => ret = map_service_error(Last(calls).resp)
                  /\ CallOps \cap (PromptOps \cup {"build"} \cup MutatingOps) = {}
            /\ (frame.pc = "should_deploy") => FirstLookupAbsent /\ Len(calls) = 1)
    /\ [][(cmd # Idle /\ store' # store) =>
             /\ FirstLookupAbsent
             /\ cmd.component_match_kind \in {"App", "AppCurrentDir"}
             /\ Answered(Ok(TRUE))]_vars

\* The user declined the deploy of a missing component of the application
\* while the store holds other components.
C32_Witness ==
    /\ AutoDeployReturned
    /\ FirstLookupAbsent
    /\ cmd.component_match_kind = "App"
    /\ Answered(Ok(FALSE))
    /\ ret.err[1] = "NonSuccessfulExit"
    /\ store # {}

\* A missing component that is not part of the application.
C32_WitnessUnknown ==
    /\ AutoDeployReturned
    /\ FirstLookupAbsent
    /\ cmd.component_match_kind = "Unknown"
    /\ ~HelpFailed
    /\ ret.err[1] = "NonSuccessfulExit"

\* A confirmed deploy that wrote to the store.
C32_WitnessDeployed ==
    /\ AutoDeployReturned
    /\ Answered(Ok(TRUE))
    /\ Written # {}

\* The lookup failed for a name of the application.
C32_WitnessLookupError ==
    /\ AutoDeployReturned
    /\ cmd.clients_ok
    /\ cmd.component_match_kind = "App"
    /\ ~calls[1].resp.ok

\* C37: after a confirmed deploy that succeeded, the component is resolved by
\* its name with no version selection: one list-by-name call, whose last
\* record, the latest version in the store, is returned whatever version
\* selection the caller gave, and whose empty answer is an error; the command
\* makes no worker update and no worker redeploy.
C37_ResolvedAgainWithoutVersion ==
    /\ [](InAutoDeploy =>
            /\ WorkerSteps = {}
            /\ \A k \in 1..Len(calls) :
                  calls[k].call.op \in {"worker_metadata", "get_component_metadata"}
                      => k \in FirstLookupCalls
            /\ (AutoDeployReturned /\ Answered(Ok(TRUE)) /\ ret.ok) =>
                  /\ ret.val.component_name = cmd.component_name
                  /\ ret.val \in store
                  /\ ret.val = Latest(ret.val.component_id))
    /\ [][(InAutoDeploy /\ frame.pc = "returned") =>
             /\ frame'.pc = "auto_deploy_returned"
             /\ store' = store
             /\ IF ~ret.ok THEN ret' = ret /\ calls' = calls
                ELSE /\ Len(calls') = Len(calls) + 1
                     /\ SubSeq(calls', 1, Len(calls)) = calls
                     /\ Last(calls').call =
                           initial_call(cmd.backend, cmd.project,
                                        ByName(cmd.component_name))
                     /\ LET resp == Last(calls').resp IN
                        ret' = IF ~resp.ok THEN map_service_error(resp)
                               ELSE IF resp.val = <<>>
                                    THEN Err(<<"anyhow", "not found after deployment">>)
                                    ELSE Ok(Last(resp.val))]_vars

\* The caller asked for a version the component deployed on its behalf does
\* not have, and got the deployed record.
C37_Witness ==
    /\ AutoDeployReturned
    /\ Answered(Ok(TRUE))
    /\ ret.ok
    /\ cmd.component_version_selection.some
    /\ cmd.component_version_selection.val.kind = "ByExplicitVersion"
    /\ cmd.component_version_selection.val.version # ret.val.version

\* The deploy succeeded without deploying the component.
C37_WitnessStillMissing ==
    /\ AutoDeployReturned
    /\ Answered(Ok(TRUE))
    /\ ret = Err(<<"anyhow", "not found after deployment">>)

----------------------------------------------------------------------------
\* Properties of Context::start

InContextStart == cmd.op = "Context::start"

\* The start call of each service.
StartOp ==
    [db |-> "Db::start", redis |-> "Redis::make",
     shard_manager |-> "ShardManager::start",
     golem_template_service |-> "GolemTemplateService::start",
     golem_worker_service |-> "GolemWorkerService::start",
     worker_executors |-> "WorkerExecutors::start"]

Services == DOMAIN StartOp

\* The services whose info the start of a service is given.
Consumes ==
    [db |-> {}, redis |-> {},
     shard_manager |-> {"redis"},
     golem_template_service |-> {"db"},
     golem_worker_service |-> {"shard_manager", "db", "redis", "golem_template_service"},
     worker_executors |-> {"redis", "golem_worker_service", "golem_template_service",
                           "shard_manager"}]

StartCalls(s) == {k \in 1..Len(calls) : calls[k].call.op = StartOp[s]}

\* C34: Context::start starts a service only after every service whose info
\* it is given has started successfully, with the info of that start (shard
\* manager: redis; template service: db; worker service: shard manager, db,
\* redis, template service; worker executors: redis, worker service, template
\* service, shard manager); the first start that fails is the last one made
\* and its failure is what Context::start returns.
C34_StartedInDependencyOrder ==
    InContextStart =>
        /\ \A s \in Services :
              /\ Cardinality(StartCalls(s)) <= 1
              /\ \A k \in StartCalls(s) :
                    /\ DOMAIN calls[k].call = {"op", "env_config"} \cup Consumes[s]
                    /\ \A d \in Consumes[s] :
                          \E j \in StartCalls(d) :
                             /\ j < k
                             /\ calls[j].resp.ok
                             /\ calls[j].resp.val = calls[k].call[d]
        /\ \A k \in 1..Len(calls) :
              /\ calls[k].call.op \in {StartOp[s] : s \in Services}
              /\ k < Len(calls) => calls[k].resp.ok
        /\ (calls # <<>> /\ ~Last(calls).resp.ok) =>
              /\ frame.pc = "returned"
              /\ ret = Err(Last(calls).resp.err)
        /\ (frame.pc = "returned" /\ ret.ok) =>
              /\ Len(calls) = Cardinality(Services)
              /\ \A s \in Services : \E k \in StartCalls(s) : calls[k].resp.val = ret.val[s]

\* The worker service failed to start after the four services it needs: the
\* worker executors were never started.
C34_Witness ==
    /\ InContextStart
    /\ frame.pc = "returned"
    /\ Len(calls) = 5
    /\ ret = Err(<<"Failed", "golem_worker_service">>)
    /\ StartCalls("worker_executors") = {}

\* Every service started.
C34_WitnessAllStarted ==
    /\ InContextStart
    /\ frame.pc = "returned"
    /\ ret.ok
    /\ ret.val.env.db_type = "Sqlite"

====
